---------------------------- MODULE Spec2Model ----------------------------
(***************************************************************************)
(* Model of two state machines of smoldot:                                 *)
(*   - MultiStream  (lib/src/libp2p/connection/established/multi_stream.rs)*)
(*   - AllSync      (lib/src/sync/all.rs) on top of OptimisticSync         *)
(*                  (lib/src/sync/optimistic.rs)                           *)
(* SpecMS drives the connection, SpecAll drives the composite syncer.      *)
(***************************************************************************)
EXTENDS Integers, Sequences, FiniteSets, TLC

VARIABLES
    \* ---- MultiStream fields (multi_stream.rs:37-87)
    pending_events,          \* VecDeque<Event>
    in_substreams,           \* HashMap<TSubId, Substream>
    out_in_substreams_map,   \* HashMap<u32, TSubId>
    next_out_substream_id,   \* u32
    desired_out_substreams,  \* VecDeque<Substream>
    ping_substream,          \* Option<TSubId>: {} or {id}
    next_ping,               \* TNow
    \* ---- observation of the connection's caller
    ms_ret,                  \* what the last MultiStream call returned
    dead_ids,                \* transport ids for which Reset was returned
    ms_now,                  \* latest ReadWrite::now the caller passed
    debug_assertions,        \* build profile: are debug_assert!s compiled in
    rw_inspected,            \* does the caller keep the counters of the ReadWrite
    ms_halt,                 \* "none", or why the connection stopped (panic, hang)
    \* ---- AllSync fields (all.rs:162-165, 2885-2957)
    all_inner,               \* AllSyncInner: which strategy is active
    sources,                 \* Shared::sources: Slab<SourceMapping>
    sources_vacant,          \*   its list of vacant keys, most recently freed first
    requests,                \* Shared::requests: Slab<RequestMapping>
    requests_vacant,         \*   its list of vacant keys
    sync_sources,            \* sources of the active strategy, by its own ids
    sync_requests,           \* requests the active strategy has absorbed
    next_source_id,          \* next source id of the active strategy
    next_request_id,         \* next request id of the active strategy
    chain,                   \* block numbers of the active strategy's chain
    \* ---- observation of the syncer's caller
    all_ret,                 \* what the last AllSync call returned
    issued,                  \* every (id, user data) pair add_source / add_request returned
    \* ---- OptimisticSync on its own (optimistic.rs:129-179)
    optimistic,              \* the fields of OptimisticSync and OptimisticSyncInner
    \* ---- observation of the optimistic syncer's caller
    opt_ret,                 \* what the last OptimisticSync call returned
    opt_emitted              \* (request, source) pairs started and not finished

ms_vars == <<pending_events, in_substreams, out_in_substreams_map,
             next_out_substream_id, desired_out_substreams, ping_substream,
             next_ping, ms_ret, dead_ids, ms_now, debug_assertions, rw_inspected,
             ms_halt>>

all_vars == <<all_inner, sources, sources_vacant, requests, requests_vacant,
              sync_sources, sync_requests, next_source_id, next_request_id,
              chain, all_ret, issued>>

opt_vars == <<optimistic, opt_ret, opt_emitted>>

vars == <<ms_vars, all_vars, opt_vars>>

---------------------------------------------------------------------------
\* Bounds of the model.
MaxTransport == 2      \* transport substream ids are 1..MaxTransport
MaxOutIds    == 2      \* add_* stop once next_out_substream_id reaches this
MaxQueueIds  == 4      \* the same where the event queue is filled
MaxDesired   == 1      \* longest desired_out_substreams queue explored
MaxFrames    == 1      \* frames the remote has in flight on one substream
MaxScript    == 1      \* reactions of the inner state machine per call
MaxNow       == 2      \* the clock runs over 0..MaxNow
MaxEvents    == 5      \* reset_substream is explored while the queue is shorter
MaxSources   == 2      \* add_source calls in a run
MaxRequests  == 3      \* add_request calls in a run
LoopFuel     == 12     \* iterations of the driver loop unrolled per call
MaxByteScript == 2     \* reactions per call where the byte counts are checked
MaxApiIds    == 3      \* external ids handed out where the API calls are explored
MaxApiNow    == 3      \* the clock there runs over 0..MaxApiNow
MaxFifoTransport == 3  \* transport streams where the desired queue is explored
MaxFifoIds   == 4      \* external ids handed out there
MaxFifoDesired == 2    \* longest desired queue there
MaxHeight    == 3      \* highest block number
MaxOptSources  == 2    \* OptimisticSync::add_source calls in a run
MaxOptRequests == 3    \* OptimisticSync::insert_request calls in a run

\* Program constants.
MAX_PENDING_EVENTS == 4
MaxFrameSize       == 16384
MinOutgoing        == 6
WriteReserve       == 10

\* Configuration values (Config fields).
first_out_ping == 1
ping_interval  == 2
download_ahead_blocks == 2

None == "None"

TransportIds == 1..MaxTransport

Min(a, b) == IF a < b THEN a ELSE b
Max(a, b) == IF a > b THEN a ELSE b

RECURSIVE SumSizes(_)
SumSizes(fs) == IF fs = <<>> THEN 0 ELSE Head(fs).size + SumSizes(Tail(fs))

---------------------------------------------------------------------------
\* Envelope encoding: leb128(len) || tag1 flags? || tag2 bytes?

Leb128Len(n) == IF n < 128 THEN 1 ELSE IF n < 16384 THEN 2 ELSE 3

\* flags = -1: no flags field; msg = -1: no message field, else its length.
BodyLen(flags, msg) ==
    (IF flags # -1 THEN 2 ELSE 0)
    + (IF msg # -1 THEN 1 + Leb128Len(msg) + msg ELSE 0)

EnvelopeSize(flags, msg) == Leb128Len(BodyLen(flags, msg)) + BodyLen(flags, msg)

Frame(flags, msg) ==
    [flags |-> flags, msg |-> msg, bad |-> FALSE, size |-> EnvelopeSize(flags, msg)]

\* A frame whose body is not a valid tagged-field message.
BadFrame == [flags |-> -1, msg |-> -1, bad |-> TRUE, size |-> 3]

\* Frames the remote may send.
WireFrames ==
    { Frame(-1, 3), Frame(0, -1), BadFrame,
      Frame(-1, 16379), Frame(-1, 16380) }

\* Result of the nom parser over read_buffer (multi_stream.rs:351-382).
ParseFrame(frames, len) ==
    IF frames = <<>> \/ len < Head(frames).size
    THEN [res |-> "Eof", size |-> 0, flags |-> -1, msg |-> 0]
    ELSE IF Head(frames).bad
    THEN [res |-> "Err", size |-> 0, flags |-> -1, msg |-> 0]
    ELSE [res |-> "Ok", size |-> Head(frames).size, flags |-> Head(frames).flags,
          msg |-> Max(Head(frames).msg, 0)]

---------------------------------------------------------------------------
\* The inner substream state machine (substream::Substream) is opaque: its
\* read_write is a reaction chosen by the environment.

InnerTypes == {"ingoing", "ping_out", "request_out", "notifications_out"}

\* credit: events the state machine can still produce (one per negotiation,
\* request or notifications substream; one per queued ping).
NewInner(ty) == [some |-> TRUE, ty |-> ty, credit |-> IF ty = "ping_out" THEN 0 ELSE 1]
NoInner      == [some |-> FALSE, ty |-> "gone", credit |-> 0]

NewSubstream(id, ty, ud) ==
    [id |-> id, inner |-> NewInner(ty), user_data |-> ud,
     rb_frames |-> <<>>, rb_len |-> 0, read_buffer_partial_read |-> 0,
     remote_writing_side_closed |-> FALSE, local_writing_side_closed |-> FALSE]

\* Events of substream::Event an inner state machine of each type can produce.
\* Those marked in TakesUserData hand the user data back.
EventsOf(ty) ==
    CASE ty = "ingoing"           -> {"InboundNegotiated"}
      [] ty = "ping_out"          -> {"PingOutSuccess", "PingOutError"}
      [] ty = "request_out"       -> {"Response"}
      [] ty = "notifications_out" -> {"NotificationsOutReset"}
      [] OTHER                    -> {}

TakesUserData == {"Response", "NotificationsOutReset", "NotificationsInClose",
                  "InboundNegotiatedCancel"}

\* Event mapping of on_substream_event.
MapEvent(substream_id, ev) ==
    CASE ev = "PingOutSuccess" -> [ev |-> "PingOutSuccess", id |-> -1]
      [] ev = "PingOutError"   -> [ev |-> "PingOutFailed", id |-> -1]
      [] OTHER                 -> [ev |-> ev, id |-> substream_id]

\* A queue that takes new events at the front.
on_substream_event_Front(pe, sub, ev) ==
    [pe  |-> <<MapEvent(sub.id, ev)>> \o pe,
     sub |-> IF ev \in TakesUserData THEN [sub EXCEPT !.user_data = None] ELSE sub]

\* A queue that takes every event twice.
on_substream_event_Twice(pe, sub, ev) ==
    [pe  |-> pe \o <<MapEvent(sub.id, ev), MapEvent(sub.id, ev)>>,
     sub |-> IF ev \in TakesUserData THEN [sub EXCEPT !.user_data = None] ELSE sub]

on_substream_event(pe, sub, ev) ==
    [pe  |-> Append(pe, MapEvent(sub.id, ev)),
     sub |-> IF ev \in TakesUserData THEN [sub EXCEPT !.user_data = None] ELSE sub]

\* Events the inner state machine may legally produce now.
LegalEvents(sub) ==
    IF sub.inner.credit = 0 THEN {}
    ELSE {e \in EventsOf(sub.inner.ty) : e \in TakesUserData => sub.user_data # None}

Idle == [read |-> FALSE, write |-> 0, close |-> FALSE, die |-> FALSE, event |-> "none"]

Reactions(ty) ==
    { Idle,
      [Idle EXCEPT !.read = TRUE],
      [Idle EXCEPT !.write = 3],
      [Idle EXCEPT !.close = TRUE],
      [Idle EXCEPT !.die = TRUE] }
    \cup {[Idle EXCEPT !.event = e] : e \in EventsOf(ty)}

Scripts(ty) ==
    UNION {[1..n -> Reactions(ty)] : n \in 0..MaxScript}


---------------------------------------------------------------------------
\* substream_read_write: the driver loop (multi_stream.rs:309-555).
\* A context c holds the substream record, the event queue and the ReadWrite
\* of the call; c.fate = "none" while the loop is running.

\* What read_write of the inner state machine does with reaction r.
\* avail_in = -1: incoming_buffer is None; cap = -1: outgoing_buffer is None.
InnerReadWrite(sub, r, avail_in, cap) ==
    [read_bytes    |-> IF r.read /\ avail_in > 0 THEN avail_in ELSE 0,
     written_bytes |-> IF cap > 0 THEN Min(r.write, cap) ELSE 0,
     out_is_some   |-> cap # -1 /\ ~r.close,
     inner         |-> IF r.die THEN NoInner
                       ELSE IF r.event \in LegalEvents(sub)
                       THEN [sub.inner EXCEPT !.credit = @ - 1]
                       ELSE sub.inner,
     event         |-> IF r.event \in LegalEvents(sub) THEN r.event ELSE "none"]

\* A driver that sends FIN whenever the outgoing buffer is absent.
FlagToWriteOut_FinAgain(inner_some, remote_closed, local_closed, out_is_some) ==
    IF ~inner_some /\ (~remote_closed \/ out_is_some) THEN 2
    ELSE IF ~out_is_some THEN 0
    ELSE -1

\* Flag of the envelope to send after the inner call (multi_stream.rs:461-477).
FlagToWriteOut(inner_some, remote_closed, local_closed, out_is_some) ==
    IF ~inner_some /\ (~remote_closed \/ out_is_some) THEN 2
    ELSE IF ~local_closed /\ ~out_is_some THEN 0
    ELSE -1

\* Bytes moved from incoming_buffer to read_buffer (multi_stream.rs:336-337).
MaxToTransfer(incoming_len, read_buffer_len) ==
    Min(incoming_len, MaxFrameSize - read_buffer_len)

\* A frame processing that takes STOP_SENDING for a close of the remote side.
BranchPopFrame_StopCloses(c, f) ==
    LET sub1 == [c.sub EXCEPT
                    !.read_buffer_partial_read = 0,
                    !.rb_frames = Tail(@),
                    !.rb_len = @ - f.size,
                    !.remote_writing_side_closed = @ \/ f.flags \in {0, 1, 2}]
        ev   == IF f.flags = 2 /\ c.reset_event \in LegalEvents(c.sub)
                THEN c.reset_event ELSE "none"
        sub2 == IF f.flags = 2 THEN [sub1 EXCEPT !.inner = NoInner] ELSE sub1
    IN [c EXCEPT !.sub = sub2, !.event = ev, !.continue_looping = TRUE,
                 !.popped = Append(@, f.flags)]

\* Frame fully delivered to the inner state machine: pop it and process its
\* flags (multi_stream.rs:387-414).
BranchPopFrame(c, f) ==
    LET sub1 == [c.sub EXCEPT
                    !.read_buffer_partial_read = 0,
                    !.rb_frames = Tail(@),
                    !.rb_len = @ - f.size,
                    !.remote_writing_side_closed = @ \/ f.flags \in {0, 2}]
        \* reset() of the inner state machine may produce an event
        ev   == IF f.flags = 2 /\ c.reset_event \in LegalEvents(c.sub)
                THEN c.reset_event ELSE "none"
        sub2 == IF f.flags = 2 THEN [sub1 EXCEPT !.inner = NoInner] ELSE sub1
    IN [c EXCEPT !.sub = sub2, !.event = ev, !.continue_looping = TRUE,
                 !.popped = Append(@, f.flags)]

\* An intermediary buffer as large as the outgoing space.
IntermediaryLen_NoReserve(out_avail) == Min(out_avail, MaxFrameSize)

\* Length of intermediary_write_buffer (multi_stream.rs:419-423).
IntermediaryLen(out_avail) == Max(Min(out_avail, MaxFrameSize) - WriteReserve, 0)

\* Otherwise: run the inner state machine and frame what it wrote
\* (multi_stream.rs:416-527).
BranchReadWrite(c, f) ==
    LET sub0 == c.sub
        r    == IF c.script = <<>> THEN Idle ELSE Head(c.script)
        cap  == IF sub0.local_writing_side_closed THEN -1
                ELSE IntermediaryLen(c.out_avail)
        ain  == IF sub0.remote_writing_side_closed THEN -1
                ELSE f.msg - sub0.read_buffer_partial_read
        o    == InnerReadWrite(sub0, r, ain, cap)
        flag == FlagToWriteOut(o.inner.some, sub0.remote_writing_side_closed,
                               sub0.local_writing_side_closed, o.out_is_some)
        sub1 == [sub0 EXCEPT
                    !.inner = o.inner,
                    !.read_buffer_partial_read = @ + o.read_bytes,
                    !.local_writing_side_closed = @ \/ flag = 0]
        send == flag # -1 \/ o.written_bytes # 0
        size == EnvelopeSize(flag, IF o.written_bytes # 0 THEN o.written_bytes ELSE -1)
    IN [c EXCEPT
          !.sub = sub1,
          !.script = IF c.script = <<>> THEN <<>> ELSE Tail(c.script),
          !.inner_calls = @ + 1,
          !.event = o.event,
          !.continue_looping = @ \/ o.read_bytes # 0 \/ o.written_bytes # 0 \/ send,
          !.out_avail = IF send THEN @ - size ELSE @,
          !.written_bytes = IF send THEN @ + size ELSE @,
          !.envelopes = IF send
                        THEN Append(@, [flag |-> flag, size |-> size, room |-> c.out_avail])
                        ELSE @]

\* End of an iteration: queue the event, then remove the substream or decide
\* whether to loop again (multi_stream.rs:529-554).
IterEnd(c) ==
    LET q  == IF c.event = "none" THEN [pe |-> c.pe, sub |-> c.sub]
              ELSE on_substream_event(c.pe, c.sub, c.event)
        cl == c.continue_looping \/ c.event # "none"
    IN [c EXCEPT
          !.pe = q.pe, !.sub = q.sub, !.event = "none", !.continue_looping = FALSE,
          !.removed = ~q.sub.inner.some,
          !.fate = IF ~q.sub.inner.some THEN "Reset"
                   ELSE IF ~cl THEN "Continue" ELSE "none"]

\* A gate that lets one more event in.
QueueFull_Late(pe) == Len(pe) > MAX_PENDING_EVENTS

\* Backpressure gate (multi_stream.rs:311).
QueueFull(pe) == Len(pe) >= MAX_PENDING_EVENTS

\* A gate that opens with one byte less.
NoRoom_Five(out_avail) == out_avail < MinOutgoing - 1

\* Outgoing-space gate (multi_stream.rs:320).
NoRoom(out_avail) == out_avail < MinOutgoing

\* One iteration of the loop.
Iter(c) ==
    IF QueueFull(c.pe) THEN [c EXCEPT !.fate = "Continue"]
    ELSE IF NoRoom(c.out_avail) THEN [c EXCEPT !.fate = "Continue"]
    ELSE
      LET k  == MaxToTransfer(c.inc, c.sub.rb_len)
          c1 == [c EXCEPT !.sub.rb_len = @ + k, !.inc = @ - k,
                          !.read_bytes = @ + k, !.continue_looping = (k # c.inc)]
          f  == ParseFrame(c1.sub.rb_frames, c1.sub.rb_len)
      IN IF f.res = "Err" THEN [c1 EXCEPT !.fate = "Reset"]
         ELSE IF f.res = "Eof" /\ c1.debug /\ ~(c1.sub.rb_len < MaxFrameSize)
         THEN [c1 EXCEPT !.fate = "Panic"]
         ELSE IF f.size # 0 /\ f.msg <= c1.sub.read_buffer_partial_read
         THEN IterEnd(BranchPopFrame(c1, f))
         ELSE IterEnd(BranchReadWrite(c1, f))

\* The loop.  An iteration that changes nothing and asks to loop again repeats
\* forever: the call does not return ("Diverge").
RECURSIVE DriverLoop(_, _)
DriverLoop(c, fuel) ==
    IF c.fate # "none" THEN c
    ELSE LET d == Iter(c)
         IN IF [d EXCEPT !.inner_calls = 0] = [c EXCEPT !.inner_calls = 0]
            THEN [c EXCEPT !.fate = "Diverge"]
            ELSE IF fuel = 0 THEN [c EXCEPT !.fate = "OutOfFuel"]
            ELSE DriverLoop(d, fuel - 1)


---------------------------------------------------------------------------
\* MultiStream: state after webrtc(config) and the public operations.

MapRemove(m, k) == [x \in DOMAIN m \ {k} |-> m[x]]
MapInsert(m, k, v) == [x \in DOMAIN m \cup {k} |-> IF x = k THEN v ELSE m[x]]

\* What a call hands back: its return value and, for substream_read_write,
\* what it left in the ReadWrite (read_bytes, written_bytes, wake_up_after),
\* whether it queued a ping, how often it ran the inner state machine and the
\* flags of the frames it popped from the read buffer.
Ret(op, id, fate) ==
    [op |-> op, id |-> id, fate |-> fate, out_id |-> -1,
     outgoing |-> -1, read_bytes |-> 0, written_bytes |-> 0, inner_calls |-> 0,
     queued_ping |-> FALSE, wake_up_after |-> -1, envelopes |-> <<>>,
     popped |-> <<>>]

MSInit ==
    /\ pending_events = <<>>
    /\ in_substreams = <<>>
    /\ out_in_substreams_map = <<>>
    /\ next_out_substream_id = 0
    /\ desired_out_substreams = <<>>
    /\ ping_substream = {}
    /\ next_ping = first_out_ping
    /\ ms_ret = Ret("webrtc", -1, "none")
    /\ dead_ids = {}
    /\ ms_now = 0
    /\ debug_assertions \in BOOLEAN
    /\ rw_inspected = TRUE
    /\ ms_halt = "none"
    \* the syncer, untouched while the connection runs
    /\ all_inner = "Optimistic"
    /\ sources = <<>> /\ sources_vacant = <<>>
    /\ requests = <<>> /\ requests_vacant = <<>>
    /\ sync_sources = <<>> /\ sync_requests = <<>>
    /\ next_source_id = 0 /\ next_request_id = 0
    /\ chain = [finalized |-> 0, best |-> 0, warped |-> 0]
    /\ optimistic = [sources |-> <<>>, next_source_id |-> 0, next_request_id |-> 0,
                     verification_queue |-> [start |-> 1, slots |-> <<>>],
                     pending_encoded_justifications |-> <<>>,
                     obsolete_requests |-> <<>>, obsolete_requests_by_source |-> {},
                     finalized |-> 0, chain_best |-> 0, full_mode |-> FALSE]
    /\ opt_ret = [op |-> "new", id |-> -1, outcome |-> "none", requests |-> <<>>,
                  previous_best_height |-> -1, best_before |-> -1, in_flight |-> {}]
    /\ opt_emitted = {}
    /\ issued = [sources |-> {}, requests |-> {}]
    /\ all_ret = [op |-> "new", id |-> -1, user_data |-> 0, outcome |-> "none",
                  requests |-> {}, variant |-> "none",
                  detail |-> [kind |-> "none", ascending |-> FALSE,
                              first_block_hash |-> FALSE],
                  was_in_progress |-> FALSE]

\* A count that leaves the ping substream out.
desired_outbound_substreams_NoPing == Len(desired_out_substreams)

desired_outbound_substreams ==
    Len(desired_out_substreams) + (IF ping_substream = {} THEN 1 ELSE 0)

\* A connection that gives every inbound and ping substream the id 0.
AddSubstreamChoice_Zero(outbound) ==
    IF ~outbound THEN
        [kind |-> "inbound", sub |-> NewSubstream(0, "ingoing", None)]
    ELSE IF ping_substream = {} THEN
        [kind |-> "ping", sub |-> NewSubstream(0, "ping_out", None)]
    ELSE IF desired_out_substreams # <<>> THEN
        [kind |-> "desired", sub |-> Head(desired_out_substreams)]
    ELSE
        [kind |-> "todo", sub |-> NewSubstream(0, "gone", None)]

\* A connection that binds the youngest desired substream first.
AddSubstreamChoice_Last(outbound) ==
    IF ~outbound THEN
        [kind |-> "inbound", sub |-> NewSubstream(next_out_substream_id, "ingoing", None)]
    ELSE IF ping_substream = {} THEN
        [kind |-> "ping", sub |-> NewSubstream(next_out_substream_id, "ping_out", None)]
    ELSE IF desired_out_substreams # <<>> THEN
        [kind |-> "desired",
         sub |-> desired_out_substreams[Len(desired_out_substreams)]]
    ELSE
        [kind |-> "todo", sub |-> NewSubstream(0, "gone", None)]

\* The record add_substream stores for the new transport stream
\* (multi_stream.rs:190-223); kind "todo" is the unimplemented branch.
AddSubstreamChoice(outbound) ==
    IF ~outbound THEN
        [kind |-> "inbound", sub |-> NewSubstream(next_out_substream_id, "ingoing", None)]
    ELSE IF ping_substream = {} THEN
        [kind |-> "ping", sub |-> NewSubstream(next_out_substream_id, "ping_out", None)]
    ELSE IF desired_out_substreams # <<>> THEN
        [kind |-> "desired", sub |-> Head(desired_out_substreams)]
    ELSE
        [kind |-> "todo", sub |-> NewSubstream(0, "gone", None)]

\* Does an add_substream call stay within the external ids explored.
IdsLeft(outbound, bound) ==
    AddSubstreamChoice(outbound).kind \in {"inbound", "ping"} =>
        next_out_substream_id < bound

add_substream(id, outbound) ==
    LET ch == AddSubstreamChoice(outbound) IN
    /\ ms_halt = "none"
    /\ UNCHANGED <<all_vars, opt_vars>>
    /\ id \notin DOMAIN in_substreams
    /\ IF ch.kind = "todo"
       THEN /\ ms_halt' = "panic: add_substream todo!()"
            /\ ms_ret' = Ret("add_substream", id, "Panic")
            /\ UNCHANGED <<pending_events, in_substreams, out_in_substreams_map,
                           next_out_substream_id, desired_out_substreams,
                           ping_substream, next_ping, dead_ids, ms_now,
                           debug_assertions, rw_inspected>>
       ELSE /\ next_out_substream_id' =
                  IF ch.kind = "desired" THEN next_out_substream_id
                  ELSE next_out_substream_id + 1
            /\ ping_substream' = IF ch.kind = "ping" THEN {id} ELSE ping_substream
            /\ desired_out_substreams' =
                  IF ch.kind = "desired" THEN Tail(desired_out_substreams)
                  ELSE desired_out_substreams
            /\ out_in_substreams_map' = MapInsert(out_in_substreams_map, ch.sub.id, id)
            /\ in_substreams' = MapInsert(in_substreams, id, ch.sub)
            /\ dead_ids' = dead_ids \ {id}
            /\ ms_ret' = Ret("add_substream", id, ch.kind)
            /\ UNCHANGED <<pending_events, next_ping, ms_now, debug_assertions, rw_inspected, ms_halt>>

\* A removal that forgets the external id.
OutMapRemove_Forget(m, substream_id) == m

\* Removal of a substream's external id (multi_stream.rs:246 and 549).
OutMapRemove(m, substream_id) == MapRemove(m, substream_id)

reset_substream(substream_id, reset_event) ==
    /\ ms_halt = "none"
    /\ UNCHANGED <<all_vars, opt_vars>>
    /\ substream_id \in DOMAIN in_substreams
    /\ substream_id \notin dead_ids
    /\ Len(pending_events) < MaxEvents
    /\ LET substream == in_substreams[substream_id]
           was_in    == substream.id \in DOMAIN out_in_substreams_map
           ev        == IF reset_event \in LegalEvents(substream)
                        THEN reset_event ELSE "none"
       IN
       /\ reset_event \in LegalEvents(substream) \cup {"none"}
       /\ in_substreams' = MapRemove(in_substreams, substream_id)
       /\ out_in_substreams_map' = OutMapRemove(out_in_substreams_map, substream.id)
       /\ IF debug_assertions /\ was_in
          THEN \* debug_assert!(_was_in.is_none())
               /\ ms_halt' = "panic: reset_substream debug_assert"
               /\ ms_ret' = Ret("reset_substream", substream_id, "Panic")
               /\ UNCHANGED <<pending_events, ping_substream>>
          ELSE /\ ping_substream' =
                     IF substream_id \in ping_substream THEN {} ELSE ping_substream
               /\ pending_events' =
                     IF ev = "none" THEN pending_events
                     ELSE on_substream_event(pending_events, substream, ev).pe
               /\ ms_ret' = Ret("reset_substream", substream_id, "done")
               /\ UNCHANGED ms_halt
       /\ UNCHANGED <<next_out_substream_id, desired_out_substreams, next_ping,
                      dead_ids, ms_now, debug_assertions, rw_inspected>>

pull_event ==
    /\ ms_halt = "none"
    /\ UNCHANGED <<all_vars, opt_vars>>
    /\ pending_events # <<>>
    /\ pending_events' = Tail(pending_events)
    /\ ms_ret' = [Ret("pull_event", -1, Head(pending_events).ev) EXCEPT
                    !.out_id = Head(pending_events).id]
    /\ UNCHANGED <<in_substreams, out_in_substreams_map, next_out_substream_id,
                   desired_out_substreams, ping_substream, next_ping, dead_ids,
                   ms_now, debug_assertions, rw_inspected, ms_halt>>

\* add_request and open_notifications_substream differ by the inner state
\* machine they pre-wire (ty).  ids, desired: the external ids and the length
\* of the queue explored.
PushDesiredWithin(op, ty, ids, desired) ==
    /\ ms_halt = "none"
    /\ UNCHANGED <<all_vars, opt_vars>>
    /\ next_out_substream_id < ids
    /\ Len(desired_out_substreams) < desired
    /\ desired_out_substreams' =
          Append(desired_out_substreams, NewSubstream(next_out_substream_id, ty, "ud"))
    /\ next_out_substream_id' = next_out_substream_id + 1
    /\ ms_ret' = [Ret(op, -1, "done") EXCEPT !.out_id = next_out_substream_id]
    /\ UNCHANGED <<pending_events, in_substreams, out_in_substreams_map,
                   ping_substream, next_ping, dead_ids, ms_now, debug_assertions, rw_inspected,
                   ms_halt>>

PushDesired(op, ty) == PushDesiredWithin(op, ty, MaxOutIds, MaxDesired)

ms_add_request == PushDesired("add_request", "request_out")

open_notifications_substream ==
    PushDesired("open_notifications_substream", "notifications_out")

\* respond_in_request (multi_stream.rs:937-959). multi: is the SubstreamId of
\* the MultiStream variant. What the inner state machine answers is its own
\* business (substream::Substream::respond_in_request): Ok or an error.
respond_in_request(substream_id, multi, inner_ok) ==
    /\ ms_halt = "none"
    /\ UNCHANGED <<all_vars, opt_vars>>
    /\ LET known  == substream_id \in DOMAIN out_in_substreams_map
           inner  == out_in_substreams_map[substream_id]
           fate   == IF ~multi THEN "Err"
                     \* out_in_substreams_map.get(&substream_id).unwrap()
                     ELSE IF ~known THEN "Panic"
                     \* .ok_or(SubstreamClosed)?
                     ELSE IF inner \notin DOMAIN in_substreams THEN "Err"
                     \* .inner.as_mut().unwrap()
                     ELSE IF ~in_substreams[inner].inner.some THEN "Panic"
                     ELSE IF inner_ok THEN "Ok" ELSE "Err"
       IN
       /\ ms_ret' = [Ret("respond_in_request", -1, fate) EXCEPT !.out_id = substream_id]
       /\ ms_halt' = IF fate = "Panic" THEN "panic: respond_in_request unwrap"
                     ELSE ms_halt
    /\ UNCHANGED <<pending_events, in_substreams, out_in_substreams_map,
                   next_out_substream_id, desired_out_substreams, ping_substream,
                   next_ping, dead_ids, ms_now, debug_assertions, rw_inspected>>


\* Sizes of the outgoing buffer the caller may offer.
OutgoingSizes == {5, 40}

\* A ping that is only due after next_ping.
PingDue_Strict(now, next) == now > next

\* Is a new ping to be queued (multi_stream.rs:294).
PingDue(now, next) == now >= next

\* Context of a call before the loop: ping housekeeping done
\* (multi_stream.rs:287-307).
StartContext(substream_id, now, avail, new_frames, cut, script, reset_event) ==
    LET sub0   == in_substreams[substream_id]
        frames == sub0.rb_frames \o new_frames
        pinged == substream_id \in ping_substream /\ PingDue(now, next_ping)
        \* queue_ping
        sub1   == [sub0 EXCEPT !.rb_frames = frames,
                               !.inner.credit = IF pinged THEN @ + 1 ELSE @]
    IN [sub |-> sub1, pe |-> pending_events,
        inc |-> SumSizes(frames) - sub0.rb_len - cut,
        out_avail |-> avail, read_bytes |-> 0, written_bytes |-> 0,
        script |-> script, reset_event |-> reset_event,
        debug |-> debug_assertions, event |-> "none", continue_looping |-> FALSE,
        inner_calls |-> 0, envelopes |-> <<>>, removed |-> FALSE, fate |-> "none",
        pinged |-> pinged, popped |-> <<>>]

substream_read_write(substream_id, now, avail, new_frames, cut, script, reset_event) ==
    /\ ms_halt = "none"
    /\ UNCHANGED <<all_vars, opt_vars>>
    /\ substream_id \in DOMAIN in_substreams
    /\ substream_id \notin dead_ids
    /\ now \in {ms_now, ms_now + 1}
    \* the driver reads now only for the ping substream
    /\ substream_id \notin ping_substream => now = ms_now
    \* a call that stops at one of the two gates is offered at most a small frame
    /\ (avail < MinOutgoing \/ Len(pending_events) >= MAX_PENDING_EVENTS) =>
          /\ script = <<>> /\ cut = 0 /\ reset_event = "none"
          /\ \A i \in 1..Len(new_frames) : new_frames[i].size <= 8
    /\ reset_event # "none" =>
          \E i \in 1..Len(in_substreams[substream_id].rb_frames \o new_frames) :
             (in_substreams[substream_id].rb_frames \o new_frames)[i].flags = 2
    /\ Len(in_substreams[substream_id].rb_frames) + Len(new_frames) <= MaxFrames
    /\ cut <= SumSizes(in_substreams[substream_id].rb_frames \o new_frames)
                 - in_substreams[substream_id].rb_len
    /\ LET is_ping == substream_id \in ping_substream
           c0 == StartContext(substream_id, now, avail, new_frames, cut, script,
                              reset_event)
           c  == DriverLoop(c0, LoopFuel)
           np == IF c0.pinged THEN now + ping_interval ELSE next_ping
       IN
       /\ next_ping' = np
       /\ ms_now' = now
       /\ pending_events' = c.pe
       /\ IF c.removed
          THEN /\ ping_substream' = IF is_ping THEN {} ELSE ping_substream
               /\ out_in_substreams_map' = OutMapRemove(out_in_substreams_map, c.sub.id)
               /\ in_substreams' = MapRemove(in_substreams, substream_id)
          ELSE /\ in_substreams' = [in_substreams EXCEPT ![substream_id] = c.sub]
               /\ UNCHANGED <<ping_substream, out_in_substreams_map>>
       /\ dead_ids' = IF c.fate = "Reset" THEN dead_ids \cup {substream_id} ELSE dead_ids
       /\ ms_halt' = CASE c.fate = "Panic"     -> "panic: substream_read_write debug_assert"
                       [] c.fate = "Diverge"   -> "hang: substream_read_write"
                       [] c.fate = "OutOfFuel" -> "fuel"
                       [] OTHER                -> "none"
       /\ ms_ret' = [Ret("substream_read_write", substream_id, c.fate) EXCEPT
                       !.outgoing = IF rw_inspected THEN avail ELSE @,
                       !.read_bytes = IF rw_inspected THEN c.read_bytes ELSE @,
                       !.written_bytes = IF rw_inspected THEN c.written_bytes ELSE @,
                       !.inner_calls = IF rw_inspected THEN c.inner_calls ELSE @,
                       !.envelopes = IF rw_inspected THEN c.envelopes ELSE @,
                       !.popped = IF rw_inspected THEN c.popped ELSE @,
                       !.queued_ping = c0.pinged,
                       !.wake_up_after = IF is_ping THEN np ELSE -1]
       /\ UNCHANGED <<next_out_substream_id, desired_out_substreams, debug_assertions, rw_inspected>>

---------------------------------------------------------------------------
\* AllSync (all.rs): the composite syncer over the warp, optimistic and
\* all-forks strategies.

\* Program-level variants.
Inline == "Inline"

\* SourceMapping / RequestMapping variant of the active strategy.
VariantOf(strategy) ==
    CASE strategy \in {"WarpInProgress", "WarpFinished"} ->
            [source |-> "GrandpaWarpSync", request |-> "WarpSync"]
      [] strategy = "Optimistic" -> [source |-> "Optimistic", request |-> "Optimistic"]
      [] OTHER                   -> [source |-> "AllForks", request |-> "AllForks"]

\* RequestDetail values the caller may pass: an ascending blocks request by
\* number, a descending one by number or by hash, and the three requests of
\* the warp sync.
NoDetail == [kind |-> "none", ascending |-> FALSE, first_block_hash |-> FALSE]

WarpKinds == {"GrandpaWarpSync", "StorageGet", "RuntimeCallMerkleProof"}

Details ==
    {[kind |-> "BlocksRequest", ascending |-> TRUE, first_block_hash |-> FALSE]}
    \cup {[kind |-> "BlocksRequest", ascending |-> FALSE, first_block_hash |-> h] :
             h \in BOOLEAN}
    \cup {[kind |-> k, ascending |-> FALSE, first_block_hash |-> FALSE] : k \in WarpKinds}

\* A slab that hands out its first key every time.
SlabKey_Zero(entries, vacant) == 0

\* slab::Slab: vacant_entry().key() is the most recently freed key if any,
\* else the length of the slab.
SlabKey(entries, vacant) ==
    IF vacant # <<>> THEN Head(vacant) ELSE Cardinality(DOMAIN entries)

SlabInsert(entries, vacant, v) ==
    [entries |-> MapInsert(entries, SlabKey(entries, vacant), v),
     vacant  |-> IF vacant # <<>> THEN Tail(vacant) ELSE vacant]

SlabRemove(entries, vacant, key) ==
    [entries |-> MapRemove(entries, key), vacant |-> <<key>> \o vacant]

\* Removal of several keys, in ascending order.
RECURSIVE SlabRemoveAll(_, _, _)
SlabRemoveAll(entries, vacant, keys) ==
    IF keys = {} THEN [entries |-> entries, vacant |-> vacant]
    ELSE LET k == CHOOSE x \in keys : \A y \in keys : x <= y
             s == SlabRemove(entries, vacant, k)
         IN SlabRemoveAll(s.entries, s.vacant, keys \ {k})

\* Entries of the two slabs of Shared.
SourceEntry(variant, id) == [variant |-> variant, id |-> id]

InlineRequest(source_id, detail, user_data) ==
    [variant |-> Inline, id |-> -1, source_id |-> source_id, detail |-> detail,
     user_data |-> user_data, was_in_progress |-> FALSE]

StrategyRequest(variant, id) ==
    [variant |-> variant, id |-> id, source_id |-> -1, detail |-> NoDetail,
     user_data |-> 0, was_in_progress |-> FALSE]

\* header::hash_from_scale_encoded_header: the hash of the block with the
\* given number (one block per height is enough here).
HashOf(number) == 100 + number

\* What the strategy stores for a source: *SourceExtra of all.rs:2904-2931
\* and the best block number the strategy keeps itself (optimistic.rs:217).
\* announced: number of the block the caller last reported as the best of
\* the source.
SourceExtra(outer_source_id, user_data, best_block_number, best_block_hash, announced) ==
    [outer_source_id |-> outer_source_id, user_data |-> user_data,
     best_block_number |-> best_block_number, best_block_hash |-> best_block_hash,
     announced |-> announced]

\* User data of the source / request behind an external id.
SourceUserData(src_slab, tbl, source_id) == tbl[src_slab[source_id].id].user_data

RequestUserData(req_slab, tbl, request_id) ==
    IF req_slab[request_id].variant = Inline THEN req_slab[request_id].user_data
    ELSE tbl[req_slab[request_id].id].user_data

AllRet(op, id) ==
    [op |-> op, id |-> id, user_data |-> 0, outcome |-> "none", requests |-> {},
     variant |-> "none", detail |-> NoDetail, was_in_progress |-> FALSE]

AllInit ==
    /\ all_inner \in {"Optimistic", "WarpInProgress"}
    /\ sources = <<>> /\ sources_vacant = <<>>
    /\ requests = <<>> /\ requests_vacant = <<>>
    /\ sync_sources = <<>> /\ sync_requests = <<>>
    /\ next_source_id = 0 /\ next_request_id = 0
    /\ chain = [finalized |-> 0, best |-> 0, warped |-> 0]
    /\ optimistic = [sources |-> <<>>, next_source_id |-> 0, next_request_id |-> 0,
                     verification_queue |-> [start |-> 1, slots |-> <<>>],
                     pending_encoded_justifications |-> <<>>,
                     obsolete_requests |-> <<>>, obsolete_requests_by_source |-> {},
                     finalized |-> 0, chain_best |-> 0, full_mode |-> FALSE]
    /\ opt_ret = [op |-> "new", id |-> -1, outcome |-> "none", requests |-> <<>>,
                  previous_best_height |-> -1, best_before |-> -1, in_flight |-> {}]
    /\ opt_emitted = {}
    /\ issued = [sources |-> {}, requests |-> {}]
    /\ all_ret = AllRet("new", -1)
    \* the connection, untouched while the syncer runs
    /\ pending_events = <<>> /\ in_substreams = <<>> /\ out_in_substreams_map = <<>>
    /\ next_out_substream_id = 0 /\ desired_out_substreams = <<>>
    /\ ping_substream = {} /\ next_ping = first_out_ping
    /\ ms_ret = Ret("webrtc", -1, "none") /\ dead_ids = {} /\ ms_now = 0
    /\ debug_assertions = FALSE /\ rw_inspected = FALSE /\ ms_halt = "none"

MaxOf(S) == CHOOSE x \in S : \A y \in S : y <= x

Rank(S, x) == Cardinality({y \in S : y < x})

\* Identifier the active strategy gives a new source.  In Warp Finished it
\* is the last of sources_ordered plus one (all.rs:435-440); the strategies
\* themselves count up.
NewInnerSourceId ==
    IF all_inner = "WarpFinished"
    THEN IF DOMAIN sync_sources = {} THEN 0 ELSE MaxOf(DOMAIN sync_sources) + 1
    ELSE next_source_id

add_source(user_data, best_block_number) ==
    LET key == SlabKey(sources, sources_vacant)
        id  == NewInnerSourceId
        s   == SlabInsert(sources, sources_vacant,
                          SourceEntry(VariantOf(all_inner).source, id))
    IN
    /\ Cardinality(issued.sources) < MaxSources
    /\ sources' = s.entries
    /\ sources_vacant' = s.vacant
    /\ sync_sources' = MapInsert(sync_sources, id,
                                 SourceExtra(key, user_data, best_block_number,
                                             HashOf(best_block_number),
                                             best_block_number))
    /\ next_source_id' = IF all_inner = "WarpFinished" THEN next_source_id
                         ELSE next_source_id + 1
    /\ issued' = [issued EXCEPT !.sources = @ \cup {<<key, user_data>>}]
    /\ all_ret' = [AllRet("add_source", key) EXCEPT !.user_data = user_data]
    /\ UNCHANGED <<all_inner, requests, requests_vacant, sync_requests, next_request_id,
                   chain>>
    /\ UNCHANGED <<ms_vars, opt_vars>>

\* A strategy that hands back every request on removal of one source.
RequestsOfSource_All(tbl, inner_source_id) == DOMAIN tbl

\* Requests the active strategy holds for one of its sources: the requests in
\* progress and, in the optimistic strategy, the obsolete ones.
RequestsOfSource(tbl, inner_source_id) ==
    {r \in DOMAIN tbl : tbl[r].source_id = inner_source_id}

remove_source(source_id) ==
    LET inner_id == sources[source_id].id
        rs       == RequestsOfSource(sync_requests, inner_id)
        outer    == {sync_requests[r].outer_request_id : r \in rs}
        rq       == SlabRemoveAll(requests, requests_vacant, outer)
        sr       == SlabRemove(sources, sources_vacant, source_id)
    IN
    /\ source_id \in DOMAIN sources
    /\ sources' = sr.entries
    /\ sources_vacant' = sr.vacant
    /\ requests' = rq.entries
    /\ requests_vacant' = rq.vacant
    /\ sync_sources' = MapRemove(sync_sources, inner_id)
    /\ sync_requests' = [r \in DOMAIN sync_requests \ rs |-> sync_requests[r]]
    /\ all_ret' = [AllRet("remove_source", source_id) EXCEPT
                     !.user_data = sync_sources[inner_id].user_data,
                     !.requests = {<<sync_requests[r].outer_request_id,
                                     sync_requests[r].user_data>> : r \in rs}]
    /\ UNCHANGED <<all_inner, next_source_id, next_request_id, issued, chain>>
    /\ UNCHANGED <<ms_vars, opt_vars>>

\* AllSync::source_num_ongoing_requests (all.rs:673-706): the Inline requests
\* of the source plus what the active strategy counts for it; the warp arm
\* counts nothing.
source_num_ongoing_requests(source_id) ==
    LET num_inline == Cardinality({r \in DOMAIN requests :
                          requests[r].variant = Inline
                          /\ requests[r].source_id = source_id})
        num_inner  == IF all_inner \in {"WarpInProgress", "WarpFinished"} THEN 0
                      ELSE Cardinality(RequestsOfSource(sync_requests,
                                                        sources[source_id].id))
    IN num_inline + num_inner

\* A routing that lets all-forks absorb descending requests without a hash.
Absorbs_AnyDescending(strategy, detail) ==
    \/ /\ strategy = "AllForks"
       /\ detail.kind = "BlocksRequest" /\ ~detail.ascending
    \/ /\ strategy = "Optimistic"
       /\ detail.kind = "BlocksRequest" /\ detail.ascending
    \/ /\ strategy = "WarpInProgress"
       /\ detail.kind \in WarpKinds

\* The match arms of add_request that hand the request to the strategy
\* (all.rs:1049-1209).
Absorbs(strategy, detail) ==
    \/ /\ strategy = "AllForks"
       /\ detail.kind = "BlocksRequest" /\ ~detail.ascending /\ detail.first_block_hash
    \/ /\ strategy = "Optimistic"
       /\ detail.kind = "BlocksRequest" /\ detail.ascending
    \/ /\ strategy = "WarpInProgress"
       /\ detail.kind \in WarpKinds

\* refused: the optimistic verification queue refuses the request, which
\* makes it obsolete at once (optimistic.rs:546-567).
add_request(source_id, detail, user_data, refused) ==
    LET key == SlabKey(requests, requests_vacant)
        absorbed == Absorbs(all_inner, detail)
        entry == IF absorbed
                 THEN StrategyRequest(VariantOf(all_inner).request, next_request_id)
                 ELSE InlineRequest(source_id, detail, user_data)
        s == SlabInsert(requests, requests_vacant, entry)
    IN
    /\ source_id \in DOMAIN sources
    /\ Cardinality(issued.requests) < MaxRequests
    /\ refused => absorbed /\ all_inner = "Optimistic"
    /\ requests' = s.entries
    /\ requests_vacant' = s.vacant
    /\ IF absorbed
       THEN /\ sync_requests' = MapInsert(sync_requests, next_request_id,
                   [outer_request_id |-> key, user_data |-> user_data,
                    source_id |-> sources[source_id].id, detail |-> detail,
                    obsolete |-> refused])
            /\ next_request_id' = next_request_id + 1
       ELSE UNCHANGED <<sync_requests, next_request_id>>
    /\ issued' = [issued EXCEPT !.requests = @ \cup {<<key, user_data>>}]
    /\ all_ret' = [AllRet("add_request", key) EXCEPT
                     !.user_data = user_data, !.detail = detail,
                     !.variant = entry.variant]
    /\ UNCHANGED <<all_inner, sources, sources_vacant, sync_sources, next_source_id,
                   chain>>
    /\ UNCHANGED <<ms_vars, opt_vars>>

\* An Inline arm that reports the response as queued.
InlineBlocksOutcome_Queued == "Queued"

\* Outcome reported for a request stored Inline.
InlineBlocksOutcome == "Outdated"
InlineProofOutcome  == "Queued"

\* Outcomes the all-forks strategy can report for a blocks response.
AllForksOutcomes == {"Queued", "AllAlreadyInChain", "NotFinalizedChain"}

\* RequestDetail kind each *_response operation answers.
KindOf(op) ==
    CASE op = "blocks_request_response"    -> "BlocksRequest"
      [] op = "grandpa_warp_sync_response" -> "GrandpaWarpSync"
      [] op = "storage_get_response"       -> "StorageGet"
      [] OTHER                             -> "RuntimeCallMerkleProof"

DetailOf(request_id) ==
    IF requests[request_id].variant = Inline THEN requests[request_id].detail
    ELSE sync_requests[requests[request_id].id].detail

\* Outcome of a response, from the match arms of the *_response operations.
ResponseOutcome(op, entry, ok, strategy_outcome) ==
    IF entry.variant = Inline
    THEN IF op = "blocks_request_response" THEN InlineBlocksOutcome ELSE InlineProofOutcome
    ELSE CASE all_inner = "WarpInProgress" -> "Queued"
           [] all_inner = "WarpFinished"   -> "Outdated"
           [] all_inner = "Optimistic"     ->
                 IF ok /\ sync_requests[entry.id].obsolete THEN "Outdated" ELSE "Queued"
           [] OTHER                        -> IF ok THEN strategy_outcome ELSE "Queued"

\* The sentinel mem::replace leaves in AllSync::inner while an operation holds
\* the strategy by value.
Poisoned == "Poisoned"

\* An Inline arm that returns without writing the strategy back.
InlineArmInner_Forget(other) == Poisoned

\* What the Inline arm of storage_get_response and call_proof_response writes
\* to self.inner: the strategy it took out (all.rs:1823-1826, 1903-1906).
InlineArmInner(other) == other

\* self.inner when a *_response operation returns.  storage_get_response and
\* call_proof_response take the strategy out, leaving Poisoned, and every arm
\* that returns writes it back; blocks_request_response does the same in its
\* all-forks arm (all.rs:1561, 1632); the other arms borrow it in place.
ResponseInner(op, entry) ==
    LET taken == all_inner
    IN IF op \in {"storage_get_response", "call_proof_response"}
       THEN IF entry.variant = Inline THEN InlineArmInner(taken) ELSE taken
       ELSE IF op = "blocks_request_response" /\ entry.variant = "AllForks"
            THEN taken
            ELSE all_inner

\* Common part of blocks_request_response, grandpa_warp_sync_response_ok/err,
\* storage_get_response and call_proof_response.
Response(op, request_id, ok, strategy_outcome) ==
    LET entry == requests[request_id]
        s     == SlabRemove(requests, requests_vacant, request_id)
    IN
    /\ request_id \in DOMAIN requests
    /\ DetailOf(request_id).kind = KindOf(op)
    /\ strategy_outcome # "Queued" => ok /\ entry.variant = "AllForks"
    /\ requests' = s.entries
    /\ requests_vacant' = s.vacant
    /\ sync_requests' = IF entry.variant = Inline THEN sync_requests
                        ELSE MapRemove(sync_requests, entry.id)
    /\ all_ret' = [AllRet(op, request_id) EXCEPT
                     !.user_data = RequestUserData(requests, sync_requests, request_id),
                     !.outcome = ResponseOutcome(op, entry, ok, strategy_outcome),
                     !.variant = entry.variant,
                     !.detail = DetailOf(request_id),
                     !.was_in_progress = entry.was_in_progress]
    /\ all_inner' = ResponseInner(op, entry)
    /\ UNCHANGED <<sources, sources_vacant, sync_sources, next_source_id,
                   next_request_id, issued, chain>>
    /\ UNCHANGED <<ms_vars, opt_vars>>

blocks_request_response(request_id, ok, strategy_outcome) ==
    Response("blocks_request_response", request_id, ok, strategy_outcome)

grandpa_warp_sync_response(request_id, ok) ==
    Response("grandpa_warp_sync_response", request_id, ok, "Queued")

storage_get_response(request_id, ok) ==
    Response("storage_get_response", request_id, ok, "Queued")

call_proof_response(request_id, ok) ==
    Response("call_proof_response", request_id, ok, "Queued")

\* WarpSyncBuildRuntime::build / WarpSyncBuildChainInformation::build hand
\* back the warp state machine, which has finished: its sources become
\* Success::sources_ordered, its requests Success::in_progress_requests, and
\* Success::chain_information is that of the header the fragments led to.
warp_sync_build ==
    /\ all_inner = "WarpInProgress"
    /\ all_inner' = "WarpFinished"
    /\ chain' = [chain EXCEPT !.finalized = chain.warped, !.best = chain.warped]
    /\ all_ret' = [AllRet("warp_sync_build", -1) EXCEPT !.outcome = "Finished"]
    /\ UNCHANGED <<sources, sources_vacant, requests, requests_vacant, sync_sources,
                   sync_requests, next_source_id, next_request_id, issued>>
    /\ UNCHANGED <<ms_vars, opt_vars>>

\* A transition that leaves the warp mapping in place.
TransitionRequest_Keep(rq, outer_source_id) == StrategyRequest("WarpSync", 0)

\* A transition that drops the user data of the requests it converts.
TransitionRequest_NoUserData(rq, outer_source_id) ==
    [InlineRequest(outer_source_id, rq.detail, 0) EXCEPT !.was_in_progress = TRUE]

\* The Inline request an in-progress warp request becomes at the transition
\* (all.rs:2990-3034).
TransitionRequest(rq, outer_source_id) ==
    [InlineRequest(outer_source_id, rq.detail, rq.user_data) EXCEPT
        !.was_in_progress = TRUE]

\* A lookup that takes the lowest source of the slab.
FindSource_First(warp_source_id) ==
    CHOOSE k \in DOMAIN sources : \A j \in DOMAIN sources : k <= j

\* Outer id of the source with the given warp id (all.rs:3022-3030).
FindSource(warp_source_id) ==
    CHOOSE k \in DOMAIN sources :
        sources[k].variant = "GrandpaWarpSync" /\ sources[k].id = warp_source_id

\* A transition that installs the optimistic strategy.
StrategyAfterWarp_Optimistic == "Optimistic"

\* The strategy process_one installs once the warp sync has finished
\* (all.rs:1310).
StrategyAfterWarp == "AllForks"

\* An all-forks strategy built from the chain the composite started with.
TransitionChainInformation_Start == [chain EXCEPT !.finalized = 0, !.best = 0]

\* Config::chain_information of the new all-forks strategy:
\* grandpa.chain_information (all.rs:2974-2975).
TransitionChainInformation == chain

\* Shared::transition_grandpa_warp_sync_all_forks.
transition_grandpa_warp_sync_all_forks ==
    LET in_progress == {sync_requests[r].outer_request_id : r \in DOMAIN sync_requests}
        by_outer(o) == CHOOSE r \in DOMAIN sync_requests :
                          sync_requests[r].outer_request_id = o
    IN
    /\ requests' = [o \in DOMAIN requests |->
                      IF o \in in_progress
                      THEN TransitionRequest(sync_requests[by_outer(o)],
                                             FindSource(sync_requests[by_outer(o)].source_id))
                      ELSE requests[o]]
    /\ sources' = [k \in DOMAIN sources |->
                      IF sources[k].id \in DOMAIN sync_sources
                         /\ sync_sources[sources[k].id].outer_source_id = k
                      THEN SourceEntry("AllForks", Rank(DOMAIN sync_sources, sources[k].id))
                      ELSE sources[k]]
    /\ sync_sources' = [i \in 0..(Cardinality(DOMAIN sync_sources) - 1) |->
                          LET old == CHOOSE x \in DOMAIN sync_sources :
                                        Rank(DOMAIN sync_sources, x) = i
                          IN sync_sources[old]]
    /\ chain' = TransitionChainInformation
    /\ sync_requests' = <<>>
    /\ next_source_id' = Cardinality(DOMAIN sync_sources)
    /\ next_request_id' = 0
    /\ all_inner' = StrategyAfterWarp
    /\ all_ret' = [AllRet("process_one", -1) EXCEPT
                     !.outcome = "WarpSyncFinished",
                     !.requests = in_progress]
    /\ UNCHANGED <<sources_vacant, requests_vacant, issued>>

\* What process_one can return when it does not leave the warp sync: the
\* syncer itself, or a verification step whose perform / build hands the
\* syncer back with the same strategy (all.rs:1270-1300, 1318-1353,
\* 2439-2474, 2716-2744, 2806).
StepsOf(strategy) ==
    IF strategy = "WarpInProgress"
    THEN {"AllSync", "VerifyWarpSyncFragment"}
    ELSE {"AllSync", "VerifyBlock", "VerifyFinalityProof"}

process_one ==
    /\ IF all_inner = "WarpFinished"
       THEN transition_grandpa_warp_sync_all_forks
       ELSE /\ \E step \in StepsOf(all_inner) :
                  all_ret' = [AllRet("process_one", -1) EXCEPT !.outcome = step]
            /\ UNCHANGED <<all_inner, sources, sources_vacant, requests, requests_vacant,
                           sync_sources, sync_requests, next_source_id, next_request_id,
                           issued, chain>>
    /\ UNCHANGED <<ms_vars, opt_vars>>

\* AllSync::finalized_block_header().number (all.rs:291-303): every arm reads
\* the chain information of the state machine that is active.
finalized_block_header == chain.finalized

\* AllSync::source_best_block (all.rs:717-762): number and hash are read from
\* where block_announce and add_source stored them.
source_best_block(source_id) ==
    [number |-> sync_sources[sources[source_id].id].best_block_number,
     hash   |-> sync_sources[sources[source_id].id].best_block_hash]

\* OptimisticSync::raise_source_best_block (optimistic.rs:425-430).
raise_source_best_block(current, best_block_number) ==
    IF current < best_block_number THEN best_block_number ELSE current

\* AllSync::block_announce (all.rs:1359-1449).  decodes: does the announced
\* header decode.  The optimistic arm raises the number and overwrites the
\* hash; the warp arm overwrites both; the all-forks strategy refuses a block
\* that is not above its finalized block (TooOld) and else records it.
block_announce(source_id, number, is_best, decodes) ==
    LET id  == sources[source_id].id
        src == sync_sources[id]
        too_old == all_inner = "AllForks" /\ number <= chain.finalized
        new == CASE all_inner = "Optimistic" ->
                      [src EXCEPT
                         !.best_block_number = raise_source_best_block(@, number),
                         !.best_block_hash = HashOf(number),
                         !.announced = number]
                 [] OTHER ->
                      [src EXCEPT
                         !.best_block_number = number,
                         !.best_block_hash = HashOf(number),
                         !.announced = number]
    IN
    /\ source_id \in DOMAIN sources
    /\ all_inner # Poisoned
    /\ sync_sources' = IF decodes /\ is_best /\ ~too_old
                       THEN [sync_sources EXCEPT ![id] = new] ELSE sync_sources
    /\ all_ret' = [AllRet("block_announce", source_id) EXCEPT
                     !.outcome = IF ~decodes THEN "InvalidHeader"
                                 ELSE IF too_old THEN "TooOld"
                                 ELSE IF all_inner = "AllForks" THEN "StoredForLater"
                                 ELSE "Discarded"]
    /\ UNCHANGED <<all_inner, sources, sources_vacant, requests, requests_vacant,
                   sync_requests, next_source_id, next_request_id, chain, issued>>
    /\ UNCHANGED <<ms_vars, opt_vars>>

\* BlockVerify::verify_header (all.rs:2416-2484).  A verified block becomes
\* the best block.  A block the optimistic strategy rejects makes it reset:
\* with bodies the chain is rebuilt from the finalized block
\* (optimistic.rs:1139-1221), without bodies it is left as it is
\* (optimistic.rs:898-921); rebuilt says which.
block_verify(ok, rebuilt) ==
    /\ all_inner \in {"Optimistic", "AllForks"}
    /\ chain.best < MaxHeight
    /\ ~ok => all_inner = "Optimistic"
    /\ ok => ~rebuilt
    /\ chain' = IF ok THEN [chain EXCEPT !.best = @ + 1]
                ELSE IF rebuilt THEN [chain EXCEPT !.best = chain.finalized]
                ELSE chain
    /\ all_ret' = [AllRet("verify_header", -1) EXCEPT
                     !.outcome = IF ok THEN "Success" ELSE "Error"]
    /\ UNCHANGED <<all_inner, sources, sources_vacant, requests, requests_vacant,
                   sync_sources, sync_requests, next_source_id, next_request_id,
                   issued>>
    /\ UNCHANGED <<ms_vars, opt_vars>>

\* Finalized block the optimistic strategy keeps after a justification was
\* verified: that of the chain, whose best block was finalized
\* (optimistic.rs:1281-1308).
OptimisticFinalized == chain.best

\* FinalityProofVerify::perform (all.rs:2672-2751).  In the optimistic arm a
\* justification finalizes the best block, a bad one resets the chain to the
\* finalized block (optimistic.rs:1254-1279); the all-forks strategy
\* finalizes one of its blocks (to) or leaves the chain alone.
finality_proof_verify(ok, to) ==
    /\ all_inner \in {"Optimistic", "AllForks"}
    /\ chain.best > chain.finalized
    /\ to \in (chain.finalized + 1)..chain.best
    /\ all_inner = "Optimistic" => to = chain.best
    /\ chain' = IF ok
                THEN [chain EXCEPT !.finalized =
                         IF all_inner = "Optimistic" THEN OptimisticFinalized ELSE to]
                ELSE IF all_inner = "Optimistic"
                     THEN [chain EXCEPT !.best = chain.finalized]
                     ELSE chain
    /\ all_ret' = [AllRet("finality_proof_verify", -1) EXCEPT
                     !.outcome = IF ok THEN "NewFinalized" ELSE "JustificationError"]
    /\ UNCHANGED <<all_inner, sources, sources_vacant, requests, requests_vacant,
                   sync_sources, sync_requests, next_source_id, next_request_id,
                   issued>>
    /\ UNCHANGED <<ms_vars, opt_vars>>

\* WarpSyncFragmentVerify::perform (all.rs:2798-2814): the warp sync stays in
\* progress; a verified fragment moves the header it has reached forward.
warp_sync_fragment_verify(ok) ==
    /\ all_inner = "WarpInProgress"
    /\ chain.warped < MaxHeight
    /\ chain' = IF ok THEN [chain EXCEPT !.warped = @ + 1] ELSE chain
    /\ all_ret' = [AllRet("warp_sync_fragment_verify", -1) EXCEPT
                     !.outcome = IF ok THEN "Ok" ELSE "Err"]
    /\ UNCHANGED <<all_inner, sources, sources_vacant, requests, requests_vacant,
                   sync_sources, sync_requests, next_source_id, next_request_id,
                   issued>>
    /\ UNCHANGED <<ms_vars, opt_vars>>

\* The composite driven through what moves its chain and what its sources
\* report, with one source at a time.
AllChainNext ==
    \/ \E number \in 0..MaxHeight :
         /\ DOMAIN sources = {}
         /\ add_source(Cardinality(issued.sources) + 1, number)
    \/ \E source_id \in DOMAIN sources : remove_source(source_id)
    \/ \E source_id \in DOMAIN sources, number \in 0..MaxHeight,
          is_best \in BOOLEAN, decodes \in BOOLEAN :
         block_announce(source_id, number, is_best, decodes)
    \/ \E ok \in BOOLEAN, rebuilt \in BOOLEAN : block_verify(ok, rebuilt)
    \/ \E ok \in BOOLEAN, to \in 1..MaxHeight : finality_proof_verify(ok, to)
    \/ \E ok \in BOOLEAN : warp_sync_fragment_verify(ok)
    \/ warp_sync_build
    \/ process_one

SpecAllChain == AllInit /\ [][AllChainNext]_vars

AllNext ==
    \/ add_source(Cardinality(issued.sources) + 1, 0)
    \/ \E source_id \in DOMAIN sources : remove_source(source_id)
    \/ \E source_id \in DOMAIN sources, detail \in Details, refused \in BOOLEAN :
         add_request(source_id, detail, Cardinality(issued.requests) + 1, refused)
    \/ \E request_id \in DOMAIN requests, ok \in BOOLEAN, o \in AllForksOutcomes :
         blocks_request_response(request_id, ok, o)
    \/ \E request_id \in DOMAIN requests, ok \in BOOLEAN :
         grandpa_warp_sync_response(request_id, ok)
    \/ \E request_id \in DOMAIN requests, ok \in BOOLEAN :
         storage_get_response(request_id, ok)
    \/ \E request_id \in DOMAIN requests, ok \in BOOLEAN :
         call_proof_response(request_id, ok)
    \/ warp_sync_build
    \/ process_one






---------------------------------------------------------------------------
\* OptimisticSync (optimistic.rs).  The verification queue is a window of
\* slots, one block each, that starts at the block after the best block: a
\* slot is Queued (to be requested), Requested (a request is in flight for
\* it) or Ready (its block waits for verification).

\* VerificationQueue::new.
VQNew(base) == [start |-> base, slots |-> <<>>]

VQHeight(q, i) == q.start + i - 1

\* VerificationQueue::desired_requests: heights to request, within the
\* download-ahead window.
VQDesired(q, ahead) ==
    {VQHeight(q, i) : i \in {j \in 1..Len(q.slots) : q.slots[j].ty = "Queued"}}
    \cup (IF Len(q.slots) < ahead THEN {VQHeight(q, Len(q.slots) + 1)} ELSE {})

\* VerificationQueue::insert_request: Ok when the height is one to request.
VQInsert(q, height, source_id, request_id) ==
    LET slot == [ty |-> "Requested", request_id |-> request_id, source_id |-> source_id]
        i    == height - q.start + 1
    IN IF height \notin VQDesired(q, download_ahead_blocks) THEN [ok |-> FALSE, q |-> q]
       ELSE IF i = Len(q.slots) + 1
            THEN [ok |-> TRUE, q |-> [q EXCEPT !.slots = Append(@, slot)]]
            ELSE [ok |-> TRUE, q |-> [q EXCEPT !.slots[i] = slot]]

VQSlotOf(q, request_id) ==
    CHOOSE i \in 1..Len(q.slots) :
        q.slots[i].ty = "Requested" /\ q.slots[i].request_id = request_id

VQHasRequest(q, request_id) ==
    \E i \in 1..Len(q.slots) :
        q.slots[i].ty = "Requested" /\ q.slots[i].request_id = request_id

\* VerificationQueue::finish_request: the slot becomes Ready, or Queued again
\* when the request has failed.
VQFinish(q, request_id, ok) ==
    LET i == VQSlotOf(q, request_id)
    IN [source_id |-> q.slots[i].source_id,
        q |-> [q EXCEPT !.slots[i].ty = IF ok THEN "Ready" ELSE "Queued"]]

\* VerificationQueue::blocks_ready.
VQBlocksReady(q) == q.slots # <<>> /\ q.slots[1].ty = "Ready"

\* VerificationQueue::pop_first_block.
VQPop(q) ==
    [source_id |-> q.slots[1].source_id,
     q |-> [start |-> q.start + 1, slots |-> Tail(q.slots)]]

\* Requests in flight, in the order of the queue.
RECURSIVE VQRequests(_)
VQRequests(slots) ==
    IF slots = <<>> THEN <<>>
    ELSE (IF Head(slots).ty = "Requested"
          THEN <<[request_id |-> Head(slots).request_id,
                  source_id |-> Head(slots).source_id]>>
          ELSE <<>>) \o VQRequests(Tail(slots))

\* VerificationQueue::into_requests.
VQIntoRequests(q) == VQRequests(q.slots)

\* VerificationQueue::drain_source: the requests of the source are handed
\* back and their slots are to be requested again.
VQDrainSource(q, source_id) ==
    [requests |-> SelectSeq(VQRequests(q.slots), LAMBDA r : r.source_id = source_id),
     q |-> [q EXCEPT !.slots =
              [i \in 1..Len(q.slots) |->
                 IF q.slots[i].ty = "Requested" /\ q.slots[i].source_id = source_id
                 THEN [q.slots[i] EXCEPT !.ty = "Queued"] ELSE q.slots[i]]]]

\* VerificationQueue::source_num_ongoing_requests.
VQSourceNumOngoing(q, source_id) ==
    Len(SelectSeq(VQRequests(q.slots), LAMBDA r : r.source_id = source_id))

\* The elements of a set of numbers, in ascending order.
RECURSIVE Ascending(_)
Ascending(S) ==
    IF S = {} THEN <<>>
    ELSE LET lo == CHOOSE x \in S : \A y \in S : x <= y
         IN <<lo>> \o Ascending(S \ {lo})

OptRet(op, id, outcome) ==
    [op |-> op, id |-> id, outcome |-> outcome, requests |-> <<>>,
     previous_best_height |-> -1, best_before |-> -1, in_flight |-> {}]

\* OptimisticSync::new (optimistic.rs:251-287), without and with bodies.
OptInit ==
    /\ optimistic \in
          {[sources |-> <<>>, next_source_id |-> 0, next_request_id |-> 0,
            verification_queue |-> VQNew(1),
            pending_encoded_justifications |-> <<>>,
            obsolete_requests |-> <<>>, obsolete_requests_by_source |-> {},
            finalized |-> 0, chain_best |-> 0, full_mode |-> f] : f \in BOOLEAN}
    /\ opt_ret = OptRet("new", -1, "none")
    /\ opt_emitted = {}
    \* the connection and the composite, untouched while this syncer runs
    /\ pending_events = <<>> /\ in_substreams = <<>> /\ out_in_substreams_map = <<>>
    /\ next_out_substream_id = 0 /\ desired_out_substreams = <<>>
    /\ ping_substream = {} /\ next_ping = first_out_ping
    /\ ms_ret = Ret("webrtc", -1, "none") /\ dead_ids = {} /\ ms_now = 0
    /\ debug_assertions = FALSE /\ rw_inspected = FALSE /\ ms_halt = "none"
    /\ all_inner = "Optimistic"
    /\ sources = <<>> /\ sources_vacant = <<>>
    /\ requests = <<>> /\ requests_vacant = <<>>
    /\ sync_sources = <<>> /\ sync_requests = <<>>
    /\ next_source_id = 0 /\ next_request_id = 0
    /\ chain = [finalized |-> 0, best |-> 0, warped |-> 0]
    /\ issued = [sources |-> {}, requests |-> {}]
    /\ all_ret = AllRet("new", -1)

\* OptimisticSync::add_source (optimistic.rs:380-398).
opt_add_source(best_block_number) ==
    LET new_id == optimistic.next_source_id IN
    /\ optimistic.next_source_id < MaxOptSources
    /\ optimistic' = [optimistic EXCEPT
          !.next_source_id = @ + 1,
          !.sources = MapInsert(@, new_id,
                         [best_block_number |-> best_block_number, banned |-> FALSE,
                          num_ongoing_requests |-> 0])]
    /\ opt_ret' = OptRet("add_source", new_id, "none")
    /\ UNCHANGED opt_emitted
    /\ UNCHANGED <<ms_vars, all_vars>>

\* A lookup that finds no obsolete request.
ObsoleteOfSource_None(by_source, source_id) == {}

\* obsolete_requests_by_source.range((source_id, min)..=(source_id, max))
\* (optimistic.rs:446-453, 486-492).
ObsoleteOfSource(by_source, source_id) ==
    {x[2] : x \in {y \in by_source : y[1] = source_id}}

\* OptimisticSync::remove_source (optimistic.rs:441-472).  The requests are
\* returned by an iterator that drains the queue first and then yields the
\* obsolete ones; dropping it drains the rest (optimistic.rs:1519-1525).
opt_remove_source(source_id) ==
    LET to_remove == ObsoleteOfSource(optimistic.obsolete_requests_by_source, source_id)
        drain     == VQDrainSource(optimistic.verification_queue, source_id)
        returned  == [i \in 1..Len(drain.requests) |-> drain.requests[i].request_id]
                     \o Ascending(to_remove)
    IN
    /\ source_id \in DOMAIN optimistic.sources
    /\ optimistic' = [optimistic EXCEPT
          !.obsolete_requests = [r \in DOMAIN @ \ to_remove |-> @[r]],
          !.obsolete_requests_by_source = @ \ {<<source_id, r>> : r \in to_remove},
          !.sources = MapRemove(@, source_id),
          !.verification_queue = drain.q]
    /\ opt_ret' = [OptRet("remove_source", source_id, "none") EXCEPT
                     !.requests = returned,
                     !.in_flight = {x[1] : x \in {y \in opt_emitted : y[2] = source_id}}]
    /\ opt_emitted' = {x \in opt_emitted :
                          \A i \in 1..Len(returned) : returned[i] # x[1]}
    /\ UNCHANGED <<ms_vars, all_vars>>

\* OptimisticSync::source_num_ongoing_requests (optimistic.rs:485-496).
opt_source_num_ongoing_requests(source_id) ==
    Cardinality(ObsoleteOfSource(optimistic.obsolete_requests_by_source, source_id))
    + VQSourceNumOngoing(optimistic.verification_queue, source_id)

\* OptimisticSync::desired_requests (optimistic.rs:507-525): every height the
\* queue wants, paired with every source whose best block is at least there.
desired_requests ==
    UNION {{[block_height |-> h, source_id |-> src] :
               src \in {x \in DOMAIN optimistic.sources :
                           optimistic.sources[x].best_block_number >= h}} :
           h \in VQDesired(optimistic.verification_queue, download_ahead_blocks)}

\* OptimisticSync::insert_request (optimistic.rs:536-570).
insert_request(source_id, block_height) ==
    LET request_id == optimistic.next_request_id
        ins == VQInsert(optimistic.verification_queue, block_height, source_id,
                        request_id)
    IN
    /\ source_id \in DOMAIN optimistic.sources
    /\ optimistic.next_request_id < MaxOptRequests
    /\ optimistic' = [optimistic EXCEPT
          !.sources[source_id].num_ongoing_requests = @ + 1,
          !.next_request_id = @ + 1,
          !.verification_queue = ins.q,
          !.obsolete_requests =
              IF ins.ok THEN @ ELSE MapInsert(@, request_id, source_id),
          !.obsolete_requests_by_source =
              IF ins.ok THEN @ ELSE @ \cup {<<source_id, request_id>>}]
    /\ opt_ret' = OptRet("insert_request", request_id, IF ins.ok THEN "Ok" ELSE "Err")
    /\ opt_emitted' = opt_emitted \cup {<<request_id, source_id>>}
    /\ UNCHANGED <<ms_vars, all_vars>>

\* The early return of finish_request_success and finish_request_failed for
\* a request that is obsolete (optimistic.rs:593-610, 635-652).
FinishObsolete(request_id) ==
    LET source_id == optimistic.obsolete_requests[request_id] IN
    [optimistic EXCEPT
        !.obsolete_requests = MapRemove(@, request_id),
        !.obsolete_requests_by_source = @ \ {<<source_id, request_id>>},
        !.sources[source_id].num_ongoing_requests = @ - 1]

\* OptimisticSync::finish_request_success (optimistic.rs:588-624).
finish_request_success(request_id) ==
    /\ \/ request_id \in DOMAIN optimistic.obsolete_requests
       \/ VQHasRequest(optimistic.verification_queue, request_id)
    /\ IF request_id \in DOMAIN optimistic.obsolete_requests
       THEN /\ optimistic' = FinishObsolete(request_id)
            /\ opt_ret' = OptRet("finish_request_success", request_id, "Obsolete")
       ELSE LET fin == VQFinish(optimistic.verification_queue, request_id, TRUE) IN
            /\ optimistic' = [optimistic EXCEPT
                  !.verification_queue = fin.q,
                  !.sources[fin.source_id].num_ongoing_requests = @ - 1]
            /\ opt_ret' = OptRet("finish_request_success", request_id, "Queued")
    /\ opt_emitted' = {x \in opt_emitted : x[1] # request_id}
    /\ UNCHANGED <<ms_vars, all_vars>>

\* "If all sources are banned, unban them."
Unban(srcs) ==
    IF \A x \in DOMAIN srcs : srcs[x].banned
    THEN [x \in DOMAIN srcs |-> [srcs[x] EXCEPT !.banned = FALSE]]
    ELSE srcs

\* The ban of the source a bad block or justification came from, if the
\* source still exists, followed by the blanket unban (optimistic.rs:899-908,
\* 1143-1152, 1255-1264).
BanSource(srcs, source_id) ==
    Unban(IF source_id \in DOMAIN srcs
          THEN [srcs EXCEPT ![source_id].banned = TRUE] ELSE srcs)

\* OptimisticSync::finish_request_failed (optimistic.rs:634-675).
finish_request_failed(request_id) ==
    /\ \/ request_id \in DOMAIN optimistic.obsolete_requests
       \/ VQHasRequest(optimistic.verification_queue, request_id)
    /\ IF request_id \in DOMAIN optimistic.obsolete_requests
       THEN /\ optimistic' = FinishObsolete(request_id)
            /\ opt_ret' = OptRet("finish_request_failed", request_id, "Obsolete")
       ELSE LET fin == VQFinish(optimistic.verification_queue, request_id, FALSE) IN
            /\ optimistic' = [optimistic EXCEPT
                  !.verification_queue = fin.q,
                  !.sources = BanSource(
                      [@ EXCEPT ![fin.source_id].num_ongoing_requests = @ - 1],
                      fin.source_id)]
            /\ opt_ret' = OptRet("finish_request_failed", request_id, "Failed")
    /\ opt_emitted' = {x \in opt_emitted : x[1] # request_id}
    /\ UNCHANGED <<ms_vars, all_vars>>

\* OptimisticSync::process_one (optimistic.rs:681-705).
opt_process_one ==
    IF optimistic.pending_encoded_justifications # <<>> THEN "VerifyJustification"
    ELSE IF VQBlocksReady(optimistic.verification_queue) THEN "VerifyBlock"
    ELSE "Idle"

\* OptimisticSyncInner::make_requests_obsolete (optimistic.rs:181-201): the
\* queue is replaced by an empty one that starts after the best block of the
\* chain it is given, and its requests join the obsolete ones.
make_requests_obsolete(o, chain_best) ==
    LET former == VQIntoRequests(o.verification_queue)
        ids    == {former[i].request_id : i \in 1..Len(former)}
        src(r) == (CHOOSE i \in 1..Len(former) : former[i].request_id = r)
    IN [o EXCEPT
          !.verification_queue = VQNew(chain_best + 1),
          !.obsolete_requests =
              [r \in DOMAIN @ \cup ids |->
                  IF r \in ids THEN former[src(r)].source_id ELSE @[r]],
          !.obsolete_requests_by_source =
              @ \cup {<<former[i].source_id, former[i].request_id>> :
                        i \in 1..Len(former)}]

\* The chain a failed header verification leaves when bodies are not
\* verified: the one it had (optimistic.rs:910).  With bodies the chain is
\* rebuilt from the finalized block (optimistic.rs:1154-1158).
ChainAfterHeaderReset(o) == IF o.full_mode THEN o.finalized ELSE o.chain_best

\* BlockVerify::start (optimistic.rs:831-937), once process_one has returned
\* VerifyBlock; in full mode together with BlockVerification::from
\* (optimistic.rs:1033-1221).  verifies: does the block pass; justifications:
\* how many justifications the block came with.
block_verify_start(verifies, justifications) ==
    LET popped == VQPop(optimistic.verification_queue)
        o1 == [optimistic EXCEPT
                 !.verification_queue = popped.q,
                 !.pending_encoded_justifications =
                     [i \in 1..justifications |-> popped.source_id]]
        in_flight == {r.request_id :
                        r \in {o1.verification_queue.slots[i] :
                                 i \in {j \in 1..Len(o1.verification_queue.slots) :
                                          o1.verification_queue.slots[j].ty = "Requested"}}}
                     \cup DOMAIN o1.obsolete_requests
        o2 == [o1 EXCEPT !.sources = BanSource(@, popped.source_id)]
        best == ChainAfterHeaderReset(o2)
    IN
    /\ opt_process_one = "VerifyBlock"
    /\ optimistic.chain_best < MaxHeight
    /\ IF verifies
       THEN /\ optimistic' = [o1 EXCEPT !.chain_best = @ + 1]
            /\ opt_ret' = OptRet("block_verify_start", -1, "NewBest")
       ELSE /\ optimistic' = [make_requests_obsolete(o2, best) EXCEPT !.chain_best = best]
            /\ opt_ret' = [OptRet("block_verify_start", -1, "Reset") EXCEPT
                             !.previous_best_height = optimistic.chain_best,
                             !.best_before = optimistic.chain_best,
                             !.in_flight = in_flight]
    /\ UNCHANGED opt_emitted
    /\ UNCHANGED <<ms_vars, all_vars>>

\* previous_best_height of JustificationVerification::Reset: read from the
\* variable chain, which by then names the rebuilt chain
\* (optimistic.rs:1266-1271).
PreviousBestHeight(old_best, new_best) == new_best

\* JustificationVerify::perform (optimistic.rs:1238-1318), once process_one
\* has returned VerifyJustification.  A justification can only verify when
\* the chain has a block to finalize.
justification_verify_perform(verifies) ==
    LET source_id == Head(optimistic.pending_encoded_justifications)
        o1 == [optimistic EXCEPT !.pending_encoded_justifications = Tail(@)]
        in_flight == {r.request_id :
                        r \in {o1.verification_queue.slots[i] :
                                 i \in {j \in 1..Len(o1.verification_queue.slots) :
                                          o1.verification_queue.slots[j].ty = "Requested"}}}
                     \cup DOMAIN o1.obsolete_requests
        o2 == [o1 EXCEPT !.sources = BanSource(@, source_id)]
    IN
    /\ opt_process_one = "VerifyJustification"
    /\ verifies => optimistic.chain_best > optimistic.finalized
    /\ IF verifies
       THEN /\ optimistic' = [o1 EXCEPT !.finalized = o1.chain_best]
            /\ opt_ret' = OptRet("justification_verify_perform", -1, "Finalized")
       ELSE /\ optimistic' = [make_requests_obsolete(o2, o2.finalized) EXCEPT
                                !.chain_best = o2.finalized]
            /\ opt_ret' = [OptRet("justification_verify_perform", -1, "Reset") EXCEPT
                             !.previous_best_height =
                                 PreviousBestHeight(optimistic.chain_best, o2.finalized),
                             !.best_before = optimistic.chain_best,
                             !.in_flight = in_flight]
    /\ UNCHANGED opt_emitted
    /\ UNCHANGED <<ms_vars, all_vars>>

OptNext ==
    \/ \E best_block_number \in {1, MaxHeight} : opt_add_source(best_block_number)
    \/ \E source_id \in DOMAIN optimistic.sources : opt_remove_source(source_id)
    \/ \E source_id \in DOMAIN optimistic.sources, block_height \in 1..MaxHeight :
         insert_request(source_id, block_height)
    \/ \E request_id \in 0..(MaxOptRequests - 1) : finish_request_success(request_id)
    \/ \E request_id \in 0..(MaxOptRequests - 1) : finish_request_failed(request_id)
    \/ \E verifies \in BOOLEAN, justifications \in 0..1 :
         block_verify_start(verifies, justifications)
    \/ \E verifies \in BOOLEAN : justification_verify_perform(verifies)

SpecOpt == OptInit /\ [][OptNext]_vars

---------------------------------------------------------------------------
\* Frames and reactions explored when several substreams are open at once:
\* the ones that decide whether a substream lives or dies.
CtlFrames == {Frame(2, -1), BadFrame}

CtlReactions(ty) ==
    {Idle, [Idle EXCEPT !.die = TRUE]} \cup {[Idle EXCEPT !.event = e] : e \in EventsOf(ty)}

CtlScripts(ty) == UNION {[1..n -> CtlReactions(ty)] : n \in 0..MaxScript}

\* The connection with every operation, substreams side by side.
MSNext ==
    \/ \E id \in TransportIds, outbound \in BOOLEAN :
         IdsLeft(outbound, MaxOutIds) /\ add_substream(id, outbound)
    \/ \E id \in DOMAIN in_substreams :
         \E ev \in EventsOf(in_substreams[id].inner.ty) \cup {"none"} :
            reset_substream(id, ev)
    \/ pull_event
    \/ ms_add_request
    \/ open_notifications_substream
    \/ \E id \in DOMAIN in_substreams,
          new_frames \in {<<>>} \cup {<<f>> : f \in CtlFrames} :
         \E script \in CtlScripts(in_substreams[id].inner.ty),
            ev \in EventsOf(in_substreams[id].inner.ty) \cup {"none"} :
            substream_read_write(id, ms_now, 40, new_frames, 0, script, ev)

SpecMS == MSInit /\ [][MSNext]_vars

\* The fresh connection of a caller that looks at the return value, the ping
\* and the wake-up only.
MSWireInit ==
    /\ pending_events = <<>>
    /\ in_substreams = <<>>
    /\ out_in_substreams_map = <<>>
    /\ next_out_substream_id = 0
    /\ desired_out_substreams = <<>>
    /\ ping_substream = {}
    /\ next_ping = first_out_ping
    /\ ms_ret = Ret("webrtc", -1, "none")
    /\ dead_ids = {}
    /\ ms_now = 0
    /\ debug_assertions \in BOOLEAN
    /\ rw_inspected = FALSE
    /\ ms_halt = "none"
    \* the syncer, untouched while the connection runs
    /\ all_inner = "Optimistic"
    /\ sources = <<>> /\ sources_vacant = <<>>
    /\ requests = <<>> /\ requests_vacant = <<>>
    /\ sync_sources = <<>> /\ sync_requests = <<>>
    /\ next_source_id = 0 /\ next_request_id = 0
    /\ chain = [finalized |-> 0, best |-> 0, warped |-> 0]
    /\ optimistic = [sources |-> <<>>, next_source_id |-> 0, next_request_id |-> 0,
                     verification_queue |-> [start |-> 1, slots |-> <<>>],
                     pending_encoded_justifications |-> <<>>,
                     obsolete_requests |-> <<>>, obsolete_requests_by_source |-> {},
                     finalized |-> 0, chain_best |-> 0, full_mode |-> FALSE]
    /\ opt_ret = [op |-> "new", id |-> -1, outcome |-> "none", requests |-> <<>>,
                  previous_best_height |-> -1, best_before |-> -1, in_flight |-> {}]
    /\ opt_emitted = {}
    /\ issued = [sources |-> {}, requests |-> {}]
    /\ all_ret = [op |-> "new", id |-> -1, user_data |-> 0, outcome |-> "none",
                  requests |-> {}, variant |-> "none",
                  detail |-> [kind |-> "none", ascending |-> FALSE,
                              first_block_hash |-> FALSE],
                  was_in_progress |-> FALSE]

\* One transport stream at a time, with every frame, buffer size and reaction.
MSWireNext ==
    \/ \E outbound \in BOOLEAN :
         IdsLeft(outbound, MaxOutIds) /\ add_substream(1, outbound)
    \/ pull_event
    \/ \E id \in DOMAIN in_substreams, now \in 0..MaxNow, avail \in OutgoingSizes,
          new_frames \in {<<>>} \cup {<<f>> : f \in WireFrames} :
         \E script \in Scripts(in_substreams[id].inner.ty),
            ev \in EventsOf(in_substreams[id].inner.ty) \cup {"none"} :
            substream_read_write(id, now, avail, new_frames, 0, script, ev)

SpecMSWire == MSWireInit /\ [][MSWireNext]_vars

\* One transport stream and the sizes that matter for the 16 KiB limit: the
\* outgoing space below and at the threshold of the driver, the largest
\* frame, and an inner state machine that writes as much as it is allowed to.
ByteSizes == {5, 6, 16384}

ByteFrames == {Frame(-1, 3), Frame(0, -1), Frame(-1, 16379)}

ByteReactions ==
    { [Idle EXCEPT !.read = TRUE],
      [Idle EXCEPT !.write = MaxFrameSize],
      [Idle EXCEPT !.close = TRUE],
      [Idle EXCEPT !.die = TRUE] }

ByteScripts == UNION {[1..n -> ByteReactions] : n \in 0..MaxByteScript}

MSBytesNext ==
    \/ \E outbound \in BOOLEAN :
         IdsLeft(outbound, MaxOutIds) /\ add_substream(1, outbound)
    \/ \E id \in DOMAIN in_substreams, avail \in ByteSizes,
          new_frames \in {<<>>} \cup {<<f>> : f \in ByteFrames} :
         \E script \in ByteScripts :
            substream_read_write(id, ms_now, avail, new_frames, 0, script, "none")

SpecMSBytes == MSInit /\ [][MSBytesNext]_vars

\* Inbound substreams that negotiate and die one after the other, until the
\* queue of events is full.
QueueFrames == {Frame(-1, 3)}

QueueScripts(ty) ==
    {<<>>, <<[Idle EXCEPT !.die = TRUE]>>} \cup {<<[Idle EXCEPT !.event = e]>> : e \in EventsOf(ty)}

MSQueueNext ==
    \/ IdsLeft(FALSE, MaxQueueIds) /\ add_substream(1, FALSE)
    \/ pull_event
    \/ \E id \in DOMAIN in_substreams,
          new_frames \in {<<>>} \cup {<<f>> : f \in QueueFrames} :
         \E script \in QueueScripts(in_substreams[id].inner.ty) :
            substream_read_write(id, ms_now, 40, new_frames, 0, script, "none")

SpecMSQueue == MSInit /\ [][MSQueueNext]_vars

\* One transport stream driven through the calls of the API user: the clock
\* runs long enough for two pings, and answers are given to requests of
\* substreams that may be gone.
MSApiNext ==
    \/ \E outbound \in BOOLEAN :
         IdsLeft(outbound, MaxApiIds) /\ add_substream(1, outbound)
    \/ pull_event
    \/ \E id \in DOMAIN in_substreams, now \in 0..MaxApiNow :
         \E script \in Scripts(in_substreams[id].inner.ty) :
            substream_read_write(id, now, 40, <<>>, 0, script, "none")
    \/ \E substream_id \in 0..(MaxApiIds - 1), multi \in BOOLEAN, inner_ok \in BOOLEAN :
         /\ substream_id < next_out_substream_id
         /\ respond_in_request(substream_id, multi, inner_ok)

SpecMSApi == MSInit /\ [][MSApiNext]_vars

\* Requests and notifications substreams queued and bound to transport
\* streams, with resets in between.
MSFifoNext ==
    \/ \E id \in 1..MaxFifoTransport :
         IdsLeft(TRUE, MaxFifoIds) /\ add_substream(id, TRUE)
    \/ PushDesiredWithin("add_request", "request_out", MaxFifoIds, MaxFifoDesired)
    \/ PushDesiredWithin("open_notifications_substream", "notifications_out",
                         MaxFifoIds, MaxFifoDesired)
    \/ \E id \in DOMAIN in_substreams : reset_substream(id, "none")

SpecMSFifo == MSInit /\ [][MSFifoNext]_vars

\* One transport stream at a time and the frames that carry a flag: FIN (0),
\* STOP_SENDING (1) and RESET_STREAM (2), alone or with a message.
FlagFrames == {Frame(0, -1), Frame(1, -1), Frame(2, -1), Frame(0, 3), Frame(2, 3),
               Frame(-1, 3)}

MSFlagsNext ==
    \/ \E outbound \in BOOLEAN :
         IdsLeft(outbound, MaxOutIds) /\ add_substream(1, outbound)
    \/ ms_add_request
    \/ pull_event
    \/ \E id \in DOMAIN in_substreams,
          new_frames \in {<<>>} \cup {<<f>> : f \in FlagFrames} :
         \E script \in Scripts(in_substreams[id].inner.ty),
            ev \in EventsOf(in_substreams[id].inner.ty) \cup {"none"} :
            substream_read_write(id, ms_now, 40, new_frames, 0, script, ev)

SpecMSFlags == MSInit /\ [][MSFlagsNext]_vars

SpecAll == AllInit /\ [][AllNext]_vars

\* The unrolling of the driver loop is deep enough for every call.
FuelSuffices == ms_halt # "fuel"

---------------------------------------------------------------------------
\* Properties of the connection.

SrwReturned(fate) == ms_ret.op = "substream_read_write" /\ ms_ret.fate = fate

C2_ResetRemoves ==
    SrwReturned("Reset") =>
        /\ ms_ret.id \notin DOMAIN in_substreams
        /\ \A o \in DOMAIN out_in_substreams_map : out_in_substreams_map[o] # ms_ret.id
        /\ ms_ret.id \notin ping_substream

\* C3: every call of substream_read_write returns, with Continue or Reset.
C3_CallReturns ==
    ms_ret.op = "substream_read_write" => ms_ret.fate \in {"Continue", "Reset"}

---------------------------------------------------------------------------
\* Properties of the composite syncer.

LiveSourceUserData == {sync_sources[i].user_data : i \in DOMAIN sync_sources}

LiveRequestUserData ==
    {sync_requests[r].user_data : r \in DOMAIN sync_requests}
    \cup {requests[r].user_data : r \in {x \in DOMAIN requests : requests[x].variant = Inline}}

ProofResponses ==
    {"grandpa_warp_sync_response", "storage_get_response", "call_proof_response"}

\* C4: a SourceId or RequestId that add_source or add_request returned once
\* is never returned again for a different source or request.
C4_IdsNeverReissued ==
    /\ \A p, q \in issued.sources : p[1] = q[1] => p = q
    /\ \A p, q \in issued.requests : p[1] = q[1] => p = q

\* C4, amended: an id is returned again only once its earlier holder is gone:
\* every source or request that is still live is still the one found under
\* the id it was given.
C4_IdsOfLiveHoldersKept ==
    /\ \A p \in issued.sources :
          p[2] \in LiveSourceUserData =>
             /\ p[1] \in DOMAIN sources
             /\ SourceUserData(sources, sync_sources, p[1]) = p[2]
    /\ \A p \in issued.requests :
          p[2] \in LiveRequestUserData =>
             /\ p[1] \in DOMAIN requests
             /\ RequestUserData(requests, sync_requests, p[1]) = p[2]

\* A source id and a request id have both been returned a second time.
C4_Witness ==
    /\ \E p, q \in issued.sources : p[1] = q[1] /\ p # q
    /\ \E p, q \in issued.requests : p[1] = q[1] /\ p # q

\* C5: every entry of the sources slab has the variant of the active strategy
\* and resolves to a source of that strategy; every entry of the requests slab
\* is Inline or has the variant of the active strategy and resolves to one of
\* its requests.
C5_MappingsMatchStrategy ==
    /\ \A k \in DOMAIN sources :
          /\ sources[k].variant = VariantOf(all_inner).source
          /\ sources[k].id \in DOMAIN sync_sources
          /\ sync_sources[sources[k].id].outer_source_id = k
    /\ \A r \in DOMAIN requests :
          \/ requests[r].variant = Inline
          \/ /\ requests[r].variant = VariantOf(all_inner).request
             /\ requests[r].id \in DOMAIN sync_requests
             /\ sync_requests[requests[r].id].outer_request_id = r

\* All-forks is active after a transition that converted a request, and it
\* has absorbed a request of its own.
C5_Witness ==
    /\ all_inner = "AllForks"
    /\ \E r \in DOMAIN requests : requests[r].was_in_progress
    /\ \E r \in DOMAIN requests : requests[r].variant = "AllForks"
    /\ DOMAIN sources # {}

\* C6: the step of process_one that replaces Warp by All-Forks keeps the set
\* of source ids and the set of request ids, keeps the user data of every
\* source, turns every request that was in progress in warp into an Inline
\* request with the same id, source id and user data, and leaves the Inline
\* requests alone.
C6_TransitionKeepsIds ==
    [][(all_inner = "WarpFinished" /\ all_inner' = "AllForks") =>
         /\ DOMAIN sources' = DOMAIN sources
         /\ DOMAIN requests' = DOMAIN requests
         /\ \A k \in DOMAIN sources :
               SourceUserData(sources', sync_sources', k)
                  = SourceUserData(sources, sync_sources, k)
         /\ \A r \in DOMAIN requests :
               IF requests[r].variant = Inline
               THEN requests'[r] = requests[r]
               ELSE /\ requests'[r].variant = Inline
                    /\ requests'[r].user_data = sync_requests[requests[r].id].user_data
                    /\ requests'[r].detail = sync_requests[requests[r].id].detail
                    /\ requests'[r].source_id =
                          sync_sources[sync_requests[requests[r].id].source_id].outer_source_id
      ]_vars

\* The transition just happened with two sources, a request that was in
\* progress and a request that was Inline already.
C6_Witness ==
    /\ all_ret.op = "process_one" /\ all_ret.outcome = "WarpSyncFinished"
    /\ all_ret.requests # {}
    /\ Cardinality(DOMAIN sources) = 2
    /\ \E r \in DOMAIN requests : ~requests[r].was_in_progress

\* C7: add_request absorbs warp-sync, storage-get and call-proof requests
\* while Warp is active, in progress or finished; ascending blocks requests in
\* Optimistic; descending blocks requests with a first_block_hash in
\* All-Forks; and stores every other request Inline.
C7_RoutingMatrix ==
    all_ret.op = "add_request" =>
        ((all_ret.variant # Inline) <=>
            \/ /\ all_inner \in {"WarpInProgress", "WarpFinished"}
               /\ all_ret.detail.kind \in WarpKinds
            \/ /\ all_inner = "Optimistic"
               /\ all_ret.detail.kind = "BlocksRequest" /\ all_ret.detail.ascending
            \/ /\ all_inner = "AllForks"
               /\ all_ret.detail.kind = "BlocksRequest"
               /\ ~all_ret.detail.ascending /\ all_ret.detail.first_block_hash)

\* C7, amended: warp absorbs warp-sync, storage-get and call-proof requests
\* only while it is in progress; once it has finished every request is stored
\* Inline.  The other rows are as claimed.  An absorbed request is mapped to
\* the active strategy, an Inline one keeps its source, detail and user data.
C7_RoutingMatrixInProgress ==
    all_ret.op = "add_request" =>
        /\ all_ret.id \in DOMAIN requests
        /\ requests[all_ret.id].variant = all_ret.variant
        /\ CASE all_inner = "WarpInProgress" ->
                    (all_ret.variant # Inline) <=> (all_ret.detail.kind \in WarpKinds)
             [] all_inner = "WarpFinished" -> all_ret.variant = Inline
             [] all_inner = "Optimistic" ->
                    (all_ret.variant # Inline) <=>
                       (all_ret.detail.kind = "BlocksRequest" /\ all_ret.detail.ascending)
             [] OTHER ->
                    (all_ret.variant # Inline) <=>
                       /\ all_ret.detail.kind = "BlocksRequest"
                       /\ ~all_ret.detail.ascending /\ all_ret.detail.first_block_hash
        /\ IF all_ret.variant = Inline
           THEN /\ requests[all_ret.id].detail = all_ret.detail
                /\ requests[all_ret.id].user_data = all_ret.user_data
                /\ requests[all_ret.id].source_id \in DOMAIN sources
           ELSE all_ret.variant = VariantOf(all_inner).request

\* A storage-get request was just stored Inline while Warp had finished.
C7_Witness ==
    /\ all_ret.op = "add_request" /\ all_inner = "WarpFinished"
    /\ all_ret.detail.kind = "StorageGet" /\ all_ret.variant = Inline

\* C8: blocks_request_response on a request stored Inline returns the user
\* data of the request with outcome Outdated, and the id is no longer in the
\* requests slab.
C8_InlineBlocksOutdated ==
    [][\A r \in DOMAIN requests :
         (/\ requests[r].variant = Inline
          /\ all_ret'.op = "blocks_request_response" /\ all_ret'.id = r) =>
            /\ all_ret'.outcome = "Outdated"
            /\ all_ret'.user_data = requests[r].user_data
            /\ r \notin DOMAIN requests'
      ]_vars

\* blocks_request_response just answered an Inline request under all-forks.
C8_Witness ==
    /\ all_ret.op = "blocks_request_response" /\ all_ret.variant = Inline
    /\ all_ret.outcome = "Outdated" /\ all_inner = "AllForks"

\* C9: the response to a warp-sync, storage-get or call-proof request that
\* was in progress when Warp was replaced by All-Forks is reported Outdated.
C9_LateResponseOutdated ==
    (all_ret.op \in ProofResponses /\ all_ret.was_in_progress) =>
        all_ret.outcome = "Outdated"

C13_BackpressureGate ==
    [][(ms_ret'.op = "substream_read_write"
          /\ Len(pending_events) >= MAX_PENDING_EVENTS) =>
         /\ ms_ret'.fate = "Continue"
         /\ ms_ret'.read_bytes = 0
         /\ ms_ret'.written_bytes = 0
         /\ ms_ret'.inner_calls = 0
         /\ pending_events' = pending_events
         /\ ms_ret'.id \in DOMAIN in_substreams'
         /\ in_substreams'[ms_ret'.id].rb_len = in_substreams[ms_ret'.id].rb_len
      ]_vars

\* A call has returned at the gate with a frame of the remote waiting.
C13_Witness ==
    /\ SrwReturned("Continue")
    /\ Len(pending_events) >= MAX_PENDING_EVENTS
    /\ ms_ret.id \in DOMAIN in_substreams
    /\ in_substreams[ms_ret.id].rb_frames # <<>>
    /\ in_substreams[ms_ret.id].rb_len = 0

\* C14: an inbound frame of 16384 bytes, length prefix included, is accepted
\* and parsed; one of 16385 bytes makes substream_read_write return Reset.
C14_FrameSizeLimit ==
    (ms_ret.op = "substream_read_write" /\ ms_ret.id \in DOMAIN in_substreams) =>
        LET sub == in_substreams[ms_ret.id]
        IN (/\ sub.rb_frames # <<>>
            /\ Head(sub.rb_frames).size = MaxFrameSize + 1
            /\ sub.rb_len = MaxFrameSize)
           => ms_ret.fate = "Reset"

\* C15: no read_buffer holds more than 16384 bytes, and every envelope
\* substream_read_write writes is at most 16384 bytes and fits in the outgoing
\* space that was left, whenever 6 bytes or more were available.
C15_SizesWithinLimit ==
    /\ \A t \in DOMAIN in_substreams : in_substreams[t].rb_len <= MaxFrameSize
    /\ (ms_ret.op = "substream_read_write" /\ ms_ret.outgoing >= MinOutgoing) =>
          /\ \A i \in 1..Len(ms_ret.envelopes) :
                /\ ms_ret.envelopes[i].size <= MaxFrameSize
                /\ ms_ret.envelopes[i].size <= ms_ret.envelopes[i].room
          /\ ms_ret.written_bytes <= ms_ret.outgoing

\* A call has filled the read buffer with the largest frame and written the
\* largest envelope the intermediary buffer allows.
C15_Witness ==
    /\ SrwReturned("Continue")
    /\ ms_ret.id \in DOMAIN in_substreams
    /\ in_substreams[ms_ret.id].rb_len = MaxFrameSize
    /\ \E i \in 1..Len(ms_ret.envelopes) : ms_ret.envelopes[i].size > MaxFrameSize - WriteReserve

\* C16: a call of substream_read_write with fewer than 6 bytes of outgoing
\* space returns Continue, writes nothing, consumes nothing, and leaves the
\* read buffer and the two closed flags of the substream as they were.
C16_NoRoomNoWork ==
    [][(ms_ret'.op = "substream_read_write"
          /\ ms_ret'.outgoing # -1 /\ ms_ret'.outgoing < MinOutgoing) =>
         /\ ms_ret'.fate = "Continue"
         /\ ms_ret'.written_bytes = 0
         /\ ms_ret'.envelopes = <<>>
         /\ ms_ret'.read_bytes = 0
         /\ ms_ret'.id \in DOMAIN in_substreams'
         /\ LET old == in_substreams[ms_ret'.id]
                new == in_substreams'[ms_ret'.id]
            IN /\ new.rb_len = old.rb_len
               /\ new.read_buffer_partial_read = old.read_buffer_partial_read
               /\ new.remote_writing_side_closed = old.remote_writing_side_closed
               /\ new.local_writing_side_closed = old.local_writing_side_closed
      ]_vars

\* A call with 5 bytes of outgoing space has returned while bytes of the
\* remote were waiting.
C16_Witness ==
    /\ SrwReturned("Continue") /\ ms_ret.outgoing = MinOutgoing - 1
    /\ ms_ret.id \in DOMAIN in_substreams
    /\ in_substreams[ms_ret.id].rb_frames # <<>>
    /\ in_substreams[ms_ret.id].rb_len < Head(in_substreams[ms_ret.id].rb_frames).size

\* C17: desired_outbound_substreams() is the length of the desired queue plus
\* one if there is no ping substream; an outbound add_substream that returns
\* lowers it by exactly one and an inbound one leaves it as it is.
C17_DesiredCount ==
    [][/\ desired_outbound_substreams =
            Len(desired_out_substreams) + (IF ping_substream = {} THEN 1 ELSE 0)
       /\ (ms_ret'.op = "add_substream" /\ ms_ret'.fate \in {"ping", "desired"}) =>
            desired_outbound_substreams' = desired_outbound_substreams - 1
       /\ (ms_ret'.op = "add_substream" /\ ms_ret'.fate = "inbound") =>
            desired_outbound_substreams' = desired_outbound_substreams
      ]_vars

\* An outbound add_substream has just taken a substream from the desired
\* queue.
C17_Witness ==
    /\ ms_ret.op = "add_substream" /\ ms_ret.fate = "desired"
    /\ ms_ret.id \in DOMAIN in_substreams

C19_PingSlotFreed ==
    /\ Cardinality(ping_substream) <= 1
    /\ (\/ SrwReturned("Reset")
        \/ ms_ret.op = "reset_substream" /\ ms_ret.fate = "done")
          => ms_ret.id \notin ping_substream

\* C20: pull_event hands out the oldest queued event and removes it, and
\* every other operation only adds events behind the ones already queued.
C20_EventsFifo ==
    [][IF ms_ret'.op = "pull_event"
       THEN /\ pending_events # <<>>
            /\ ms_ret'.fate = Head(pending_events).ev
            /\ ms_ret'.out_id = Head(pending_events).id
            /\ pending_events' = Tail(pending_events)
       ELSE /\ Len(pending_events') >= Len(pending_events)
            /\ SubSeq(pending_events', 1, Len(pending_events)) = pending_events
      ]_vars

\* pull_event has returned the event of one substream while an event of
\* another substream waits behind it.
C20_Witness ==
    /\ ms_ret.op = "pull_event"
    /\ pending_events # <<>>
    /\ Head(pending_events).id # ms_ret.out_id


---------------------------------------------------------------------------
\* C21: two consecutive PingOutError events of the ping substream's state
\* machine are reported as one PingOutFailed event: the event queue never
\* holds two PingOutFailed events next to each other.
C21_PingErrorsCollapse ==
    \A i \in 1..(Len(pending_events) - 1) :
        ~(pending_events[i].ev = "PingOutFailed"
          /\ pending_events[i + 1].ev = "PingOutFailed")

\* C22: respond_in_request with an external id that designates no substream
\* (the call leaves the maps alone, so the id is looked up in the state the
\* call returned in) returns an error.
C22_DeadIdIsAnError ==
    (ms_ret.op = "respond_in_request"
     /\ ms_ret.out_id \notin DOMAIN out_in_substreams_map)
        => ms_ret.fate = "Err"

\* Source a request that has not been answered was added for.
RequestSource(request_id) ==
    IF requests[request_id].variant = Inline THEN requests[request_id].source_id
    ELSE sync_sources[sync_requests[requests[request_id].id].source_id].outer_source_id

\* C24: source_num_ongoing_requests(S) is the number of requests added for S
\* that have neither been answered nor been returned by remove_source,
\* whatever the strategy and whether the request is absorbed or Inline.
C24_OngoingCount ==
    \A s \in DOMAIN sources :
        source_num_ongoing_requests(s)
            = Cardinality({r \in DOMAIN requests : RequestSource(r) = s})

C25_BestBlockIsOneBlock ==
    \A s \in DOMAIN sources :
        /\ source_best_block(s).hash = HashOf(source_best_block(s).number)
        /\ source_best_block(s).number = sync_sources[sources[s].id].announced


\* C26: whenever the optimistic syncer reports a Reset, with or without
\* bodies, the chain it is left with has the finalized block as its best
\* block and every request that was in flight is in the obsolete set.
C26_ResetLeavesFinalizedChain ==
    opt_ret.outcome = "Reset" =>
        /\ optimistic.chain_best = optimistic.finalized
        /\ opt_ret.in_flight \subseteq DOMAIN optimistic.obsolete_requests

\* C27: desired_requests never yields a request whose source is banned.
C27_DesiredSkipsBanned ==
    \A d \in desired_requests : ~optimistic.sources[d.source_id].banned

\* C28: in every reachable state of the optimistic syncer with at least one
\* source, at least one source is not banned.
C28_SomeSourceNotBanned ==
    DOMAIN optimistic.sources # {} =>
        \E s \in DOMAIN optimistic.sources : ~optimistic.sources[s].banned

\* C29: the previous_best_height of a Reset returned by
\* JustificationVerify::perform is the height of the best block before the
\* reset.
C29_PreviousBestHeight ==
    (opt_ret.op = "justification_verify_perform" /\ opt_ret.outcome = "Reset") =>
        opt_ret.previous_best_height = opt_ret.best_before

\* C30: remove_source(S) returns every unfinished request emitted for S,
\* queued or obsolete, each exactly once; afterwards no request of S remains
\* and the two indexes of obsolete requests hold the same set.
C30_RemoveSourceReturnsAll ==
    opt_ret.op = "remove_source" =>
        /\ \A i, j \in 1..Len(opt_ret.requests) :
              opt_ret.requests[i] = opt_ret.requests[j] => i = j
        /\ {opt_ret.requests[i] : i \in 1..Len(opt_ret.requests)} = opt_ret.in_flight
        /\ \A i \in 1..Len(optimistic.verification_queue.slots) :
              optimistic.verification_queue.slots[i].ty = "Requested" =>
                  optimistic.verification_queue.slots[i].source_id # opt_ret.id
        /\ \A r \in DOMAIN optimistic.obsolete_requests :
              optimistic.obsolete_requests[r] # opt_ret.id
        /\ optimistic.obsolete_requests_by_source =
              {<<optimistic.obsolete_requests[r], r>> :
                  r \in DOMAIN optimistic.obsolete_requests}
        /\ \A x \in opt_emitted : x[2] # opt_ret.id

\* A source is removed while it has one request in the queue and an older
\* one that is obsolete.
C30_Witness ==
    /\ opt_ret.op = "remove_source"
    /\ Len(opt_ret.requests) = 2
    /\ opt_ret.requests[1] > opt_ret.requests[2]
    /\ DOMAIN optimistic.sources # {}


---------------------------------------------------------------------------
C32_ResetSubstreamCompletes ==
    ms_ret.op = "reset_substream" =>
        /\ ms_ret.fate = "done" /\ ms_halt = "none"
        /\ ms_ret.id \notin DOMAIN in_substreams

\* C33: every external substream id handed out, by add_request,
\* open_notifications_substream or add_substream for an inbound or ping
\* substream, is the value of a counter that only grows: it differs from
\* every id handed out before.
C33_FreshIds ==
    [][/\ next_out_substream_id' >= next_out_substream_id
       /\ ms_ret'.op \in {"add_request", "open_notifications_substream"} =>
             /\ ms_ret'.out_id = next_out_substream_id
             /\ next_out_substream_id' = next_out_substream_id + 1
       /\ (ms_ret'.op = "add_substream" /\ ms_ret'.fate \in {"inbound", "ping"}) =>
             /\ in_substreams'[ms_ret'.id].id = next_out_substream_id
             /\ next_out_substream_id' = next_out_substream_id + 1
       /\ \A t \in DOMAIN in_substreams : in_substreams[t].id < next_out_substream_id
       /\ \A i \in 1..Len(desired_out_substreams) :
             desired_out_substreams[i].id < next_out_substream_id
      ]_vars

\* A second id is handed out after the substream with the first one is gone.
C33_Witness ==
    /\ ms_ret.op \in {"add_request", "add_substream"}
    /\ next_out_substream_id = 2
    /\ 0 \notin DOMAIN out_in_substreams_map
    /\ \A i \in 1..Len(desired_out_substreams) : desired_out_substreams[i].id # 0
    /\ \/ 1 \in DOMAIN out_in_substreams_map
       \/ \E i \in 1..Len(desired_out_substreams) : desired_out_substreams[i].id = 1

\* C34: desired outbound substreams are bound in FIFO order: an outbound
\* add_substream, the ping slot being filled, stores the head of the desired
\* queue under the transport id and leaves the rest; add_request and
\* open_notifications_substream append to the queue; nothing else touches it.
C34_DesiredFifo ==
    [][/\ (ms_ret'.op = "add_substream" /\ ms_ret'.fate = "desired") =>
             /\ desired_out_substreams # <<>>
             /\ in_substreams'[ms_ret'.id] = Head(desired_out_substreams)
             /\ desired_out_substreams' = Tail(desired_out_substreams)
       /\ ms_ret'.op \in {"add_request", "open_notifications_substream"} =>
             /\ Len(desired_out_substreams') = Len(desired_out_substreams) + 1
             /\ SubSeq(desired_out_substreams', 1, Len(desired_out_substreams))
                   = desired_out_substreams
             /\ desired_out_substreams'[Len(desired_out_substreams')].id = ms_ret'.out_id
             /\ desired_out_substreams'[Len(desired_out_substreams')].inner.ty =
                   (IF ms_ret'.op = "add_request" THEN "request_out"
                    ELSE "notifications_out")
       /\ (desired_out_substreams' # desired_out_substreams) =>
             \/ ms_ret'.op \in {"add_request", "open_notifications_substream"}
             \/ ms_ret'.op = "add_substream" /\ ms_ret'.fate = "desired"
      ]_vars

\* The older of two desired substreams of different protocols was just bound
\* while the younger one waits.
C34_Witness ==
    /\ ms_ret.op = "add_substream" /\ ms_ret.fate = "desired"
    /\ desired_out_substreams # <<>>
    /\ in_substreams[ms_ret.id].id < Head(desired_out_substreams).id
    /\ in_substreams[ms_ret.id].inner.ty # Head(desired_out_substreams).inner.ty


\* C35: the *_response operation that answers request R returns the user
\* data handed to the add_request call that returned R (the latest one, ids
\* being reused), removes R, and leaves every other live request and every
\* source as they were, whether R was absorbed by the strategy or stored
\* Inline, and whether or not the strategy changed in between.
ResponseOps ==
    {"blocks_request_response", "grandpa_warp_sync_response",
     "storage_get_response", "call_proof_response"}

C35_ResponseReturnsUserData ==
    [][(all_ret'.op \in ResponseOps /\ requests' # requests) =>
         LET R == all_ret'.id
         IN /\ R \in DOMAIN requests
            /\ R \notin DOMAIN requests'
            /\ all_ret'.user_data
                  = MaxOf({p[2] : p \in {q \in issued.requests : q[1] = R}})
            /\ DOMAIN requests' = DOMAIN requests \ {R}
            /\ \A r \in DOMAIN requests' :
                  /\ requests'[r] = requests[r]
                  /\ RequestUserData(requests', sync_requests', r)
                        = RequestUserData(requests, sync_requests, r)
            /\ sources' = sources
            /\ sync_sources' = sync_sources
      ]_vars

\* A response just answered a request that the warp sync had absorbed and
\* the transition made Inline, while another request is still live.
C35_Witness ==
    /\ all_ret.op \in ResponseOps
    /\ all_ret.was_in_progress
    /\ all_ret.variant = Inline
    /\ all_inner = "AllForks"
    /\ DOMAIN requests # {}
    /\ all_ret.user_data \in {p[2] : p \in issued.requests}


\* C36: a request of the optimistic strategy that is obsolete (in flight at
\* a reset, or refused by the verification queue at insert_request) is
\* answered with its user data and Outdated by the composite, whether the
\* response is a success or a failure.
C36_ObsoleteIsOutdated ==
    [][(/\ all_ret'.op = "blocks_request_response"
        /\ requests' # requests
        /\ all_ret'.id \in DOMAIN requests
        /\ requests[all_ret'.id].variant = "Optimistic"
        /\ sync_requests[requests[all_ret'.id].id].obsolete) =>
         /\ all_ret'.outcome = "Outdated"
         /\ all_ret'.user_data = sync_requests[requests[all_ret'.id].id].user_data
      ]_vars


\* C37: right after a Reset, of a block or of a justification, no
\* justification of the rejected block is pending: process_one does not
\* return VerifyJustification.
C37_ResetDropsJustifications ==
    (/\ opt_ret.op \in {"block_verify_start", "justification_verify_perform"}
     /\ opt_ret.outcome = "Reset") =>
        /\ optimistic.pending_encoded_justifications = <<>>
        /\ opt_process_one # "VerifyJustification"


\* C38: the two closed flags of a substream only go from false to true, and
\* a FIN envelope is written at most once in the life of a substream: a call
\* writes at most one, writes none when the local side was closed before the
\* call, and leaves the local side closed when it wrote one.
C38_FlagsOnlyRise ==
    [][/\ \A id \in DOMAIN in_substreams \cap DOMAIN in_substreams' :
             in_substreams'[id].id = in_substreams[id].id =>
                /\ in_substreams[id].remote_writing_side_closed
                      => in_substreams'[id].remote_writing_side_closed
                /\ in_substreams[id].local_writing_side_closed
                      => in_substreams'[id].local_writing_side_closed
       /\ (ms_ret'.op = "substream_read_write" /\ ms_ret'.id \in DOMAIN in_substreams) =>
             LET id   == ms_ret'.id
                 env  == ms_ret'.envelopes
                 fins == Cardinality({i \in 1..Len(env) : env[i].flag = 0})
             IN /\ fins <= 1
                /\ in_substreams[id].local_writing_side_closed => fins = 0
                /\ (fins = 1 /\ id \in DOMAIN in_substreams') =>
                      in_substreams'[id].local_writing_side_closed
      ]_vars

\* A call ran the inner state machine of a substream whose two sides were
\* closed already and wrote no FIN.
C38_Witness ==
    /\ SrwReturned("Continue")
    /\ ms_ret.id \in DOMAIN in_substreams
    /\ in_substreams[ms_ret.id].local_writing_side_closed
    /\ in_substreams[ms_ret.id].remote_writing_side_closed
    /\ ms_ret.inner_calls > 0
    /\ \A i \in 1..Len(ms_ret.envelopes) : ms_ret.envelopes[i].flag # 0


\* C39: right after add_source has returned the identifier S, the source S
\* has no ongoing request and no live request refers to S.
C39_NewSourceHasNoRequests ==
    all_ret.op = "add_source" =>
        /\ source_num_ongoing_requests(all_ret.id) = 0
        /\ \A r \in DOMAIN requests :
              IF requests[r].variant = Inline
              THEN requests[r].source_id # all_ret.id
              ELSE sync_requests[requests[r].id].source_id # sources[all_ret.id].id


=============================================================================
